---- MODULE Spec2Model ----
(***************************************************************************)
(* Scoring / ranking / energy engine of the VT S5 benchmark tracker        *)
(* (utils.ts, models.ts, App.tsx).                                         *)
(*                                                                         *)
(* JavaScript numbers are modelled as exact rationals [n, d] in lowest     *)
(* terms (d > 0), extended with the IEEE-754 special values a division by  *)
(* zero produces: d = 0 with n = 1 (+Infinity), n = -1 (-Infinity) and     *)
(* n = 0 (NaN).  Rounding of doubles and the sign of zero are not          *)
(* modelled.  A thrown TypeError is the value TypeError.                   *)
(***************************************************************************)
EXTENDS Integers, Sequences, FiniteSets, TLC

VARIABLES
    op,              \* the engine operation applied last ("init" before any)
    thresholds,      \* Threshold argument: entries in declaration order
    startingEnergy,  \* startingEnergy argument
    score,           \* score argument of the last calculateScenarioEnergy call
    energy,          \* value returned by the last calculateScenarioEnergy call
    prevScore,       \* score of the call before, same thresholds/startingEnergy
    prevEnergy,      \* value returned by the call before
    scenarios,       \* scenarios argument: entries in declaration order
    scores,          \* scores argument (BenchmarkState): scenario -> highScore
    maxEnergy,       \* value returned by calculateSubcategoryEnergy
    scoreRank,       \* label computed by renderTable for a scenario's score
    highestRank,     \* label returned by getHighestScenarioRank
    values,          \* values argument of calculateHarmonicMean
    expectedCount,   \* expectedCount argument of calculateHarmonicMean
    harmonicMean,    \* value returned by calculateHarmonicMean
    difficulty,      \* difficulty argument of the last call
    difficultyRanks, \* difficultyRanks argument / state of App
    prevDifficulty,  \* <<difficulty>> of the calculateStartingEnergy call
                     \* before, <<>> if there is none
    prevStartingEnergy, \* <<value>> returned by that call
    overallEnergy,   \* energy argument of calculateOverallRank
    overallRank,     \* label returned by calculateOverallRank
    rank,            \* rank argument of isRankComplete
    rankComplete,    \* value returned by isRankComplete
    benchmarkData,   \* benchmarkData argument / state of App
    pending,         \* the get_stats calls of App that are in flight
    activeTab,       \* activeTab state of App
    scenarioProgress, \* progress of a scenario computed by renderTable
    inlineEnergy,    \* maxEnergy computed inline by renderTable
    legacyEnergy,    \* maxEnergy computed by the former calculateSubcategoryEnergy
    applied,         \* the get_stats call whose response fetchScores applied last
    rustResponse     \* the stats of that response

ladderVars == <<difficulty, difficultyRanks, prevDifficulty, prevStartingEnergy,
                overallEnergy, overallRank>>

appVars == <<rank, rankComplete, benchmarkData, pending, activeTab>>

tableVars == <<scenarioProgress, inlineEnergy, legacyEnergy>>

responseVars == <<applied, rustResponse>>

vars == <<op, thresholds, startingEnergy, score, energy, prevScore, prevEnergy,
          scenarios, scores, maxEnergy, scoreRank, highestRank,
          values, expectedCount, harmonicMean, ladderVars, appVars,
          tableVars, responseVars>>

-----------------------------------------------------------------------------
(* Bounds of the model *)

MaxThreshold == 4      \* thresholds are drawn from 1..MaxThreshold
MaxTiers == 3          \* a threshold map has 0..MaxTiers entries
MaxRanks == 1          \* a difficulty has 0..MaxRanks ranks in difficultyRanks
MaxNegScore == 2       \* scores are drawn from -MaxNegScore..2 * MaxThreshold
MaxScenarios == 2      \* a subcategory has 0..MaxScenarios scenarios
MaxSubTiers == 2       \* a scenario of a subcategory has 0..MaxSubTiers tiers
MaxSubThreshold == 3   \* ... with thresholds drawn from 1..MaxSubThreshold
MaxSubScore == 2       \* ... and a high score in -1..MaxSubScore, if any
MaxValues == 2         \* calculateHarmonicMean gets 0..MaxValues values
MaxValueNum == 3       \* ... among 100 * a / b, a in 1..MaxValueNum
MaxLadderRanks == 3    \* a rank list of the rank ladder has 0..MaxLadderRanks ranks
MaxAppThreshold == 2   \* the thresholds of a catalogue are drawn from 1..MaxAppThreshold
MaxAppScore == 2       \* the scores of its scenarios from 0..MaxAppScore
MaxPending == 2        \* App has at most MaxPending calls in flight

ScoreRange == (0 - MaxNegScore)..(2 * MaxThreshold)
SubScoreRange == (0 - 1)..MaxSubScore

(* Program constants: src/src/models.ts *)
ENERGY_BASE == 100
ENERGY_INCREMENT == 100

\* the value of an argument or result that no call has set
Null == [null |-> TRUE]

\* the arguments and results of the rank ladder functions are not set
LadderUnset ==
    /\ difficulty = Null /\ difficultyRanks = Null
    /\ prevDifficulty = Null /\ prevStartingEnergy = Null
    /\ overallEnergy = Null /\ overallRank = Null

\* renderTable has not computed the cells of a scenario
TableUnset == scenarioProgress = Null /\ inlineEnergy = Null /\ legacyEnergy = Null

\* fetchScores has not applied a response
ResponseUnset == applied = Null /\ rustResponse = Null

\* the completion checker has not been called and there is no App
AppUnset ==
    /\ rank = Null /\ rankComplete = Null
    /\ benchmarkData = Null /\ pending = Null /\ activeTab = Null

-----------------------------------------------------------------------------
(* JavaScript numbers *)

Abs(x) == IF x < 0 THEN 0 - x ELSE x
Sign(x) == IF x < 0 THEN 0 - 1 ELSE IF x > 0 THEN 1 ELSE 0

RECURSIVE GCD(_, _)
GCD(a, b) == IF b = 0 THEN a ELSE GCD(b, a % b)

NaN == [n |-> 0, d |-> 0]
PosInfinity == [n |-> 1, d |-> 0]
NegInfinity == [n |-> 0 - 1, d |-> 0]
TypeError == [error |-> "TypeError"]

Threw(x) == "error" \in DOMAIN x
IsNaN(a) == a.d = 0 /\ a.n = 0
IsInf(a) == a.d = 0 /\ a.n # 0
IsFinite(a) == a.d > 0

\* the number nn/dd, dd # 0, in lowest terms
Rat(nn, dd) ==
    LET g == GCD(Abs(nn), Abs(dd))
        s == IF dd < 0 THEN 0 - 1 ELSE 1
    IN  [n |-> (s * nn) \div g, d |-> (s * dd) \div g]

Num(x) == [n |-> x, d |-> 1]

\* a * b
FMul(a, b) ==
    IF IsNaN(a) \/ IsNaN(b) THEN NaN
    ELSE IF a.d = 0 \/ b.d = 0
         THEN (IF a.n = 0 \/ b.n = 0 THEN NaN
               ELSE [n |-> Sign(a.n) * Sign(b.n), d |-> 0])
         ELSE Rat(a.n * b.n, a.d * b.d)

\* a / b
FDiv(a, b) ==
    IF IsNaN(a) \/ IsNaN(b) THEN NaN
    ELSE IF a.d = 0 /\ b.d = 0 THEN NaN
    ELSE IF a.d = 0 THEN [n |-> a.n * (IF b.n < 0 THEN 0 - 1 ELSE 1), d |-> 0]
    ELSE IF b.d = 0 THEN Num(0)
    ELSE IF b.n = 0 THEN [n |-> Sign(a.n), d |-> 0]
    ELSE Rat(a.n * b.d, a.d * b.n)

\* a + b
FAdd(a, b) ==
    IF IsNaN(a) \/ IsNaN(b) THEN NaN
    ELSE IF a.d = 0 /\ b.d = 0 THEN (IF a.n = b.n THEN a ELSE NaN)
    ELSE IF a.d = 0 THEN a
    ELSE IF b.d = 0 THEN b
    ELSE Rat(a.n * b.d + b.n * a.d, a.d * b.d)

FNeg(a) == [n |-> 0 - a.n, d |-> a.d]

\* a - b
FSub(a, b) == FAdd(a, FNeg(b))

\* a < b (false when either is NaN)
FLt(a, b) ==
    IF IsNaN(a) \/ IsNaN(b) THEN FALSE
    ELSE IF a.d = 0 /\ b.d = 0 THEN a.n < b.n
    ELSE IF a.d = 0 THEN a.n < 0
    ELSE IF b.d = 0 THEN b.n > 0
    ELSE a.n * b.d < b.n * a.d

\* a <= b, a >= b, a === b (false when either is NaN)
FLe(a, b) == ~IsNaN(a) /\ ~IsNaN(b) /\ ~FLt(b, a)
FGe(a, b) == FLe(b, a)
FEq(a, b) == ~IsNaN(a) /\ ~IsNaN(b) /\ a = b

\* Math.max(a, b)
FMax(a, b) ==
    IF IsNaN(a) \/ IsNaN(b) THEN NaN
    ELSE IF FLt(a, b) THEN b ELSE a

-----------------------------------------------------------------------------
(* Inputs *)

RankNames == <<"Bronze", "Silver", "Gold", "Platinum">>
ScenarioNames == <<"s1", "s2", "s3">>
Difficulties == <<"Novice", "Intermediate", "Advanced">>

\* injective sequences of length k over the set S
RECURSIVE InjSeqs(_, _)
InjSeqs(S, k) ==
    IF k = 0 THEN {<<>>}
    ELSE UNION {{Append(q, x) : x \in S \ {q[i] : i \in 1..Len(q)}} :
                q \in InjSeqs(S, k - 1)}

\* Threshold objects of exactly k tiers: the i-th declared key is RankNames[i],
\* the thresholds are distinct positive numbers in any order.
ThresholdMapsOfLen(k) ==
    {[i \in 1..k |-> [rank |-> RankNames[i], threshold |-> q[i]]] :
        q \in InjSeqs(1..MaxThreshold, k)}

ThresholdMaps == UNION {ThresholdMapsOfLen(k) : k \in 0..MaxTiers}

\* difficultyRanks objects: every difficulty has a list of 0..MaxRanks ranks
DifficultyRankSets ==
    [{Difficulties[i] : i \in 1..3} -> {SubSeq(RankNames, 1, k) : k \in 0..MaxRanks}]

-----------------------------------------------------------------------------
(* calculateStartingEnergy *)

indexOf(seq, x) ==
    IF \E i \in 1..Len(seq) : seq[i] = x
    THEN (CHOOSE i \in 1..Len(seq) : seq[i] = x /\ \A j \in 1..(i - 1) : seq[j] # x) - 1
    ELSE 0 - 1

RECURSIVE cumulativeEnergy(_, _)
\* a variant that counts the tiers of the difficulty just before only
cumulativeEnergy_lastOnly(k, dr) ==
    IF k <= 0 THEN 0
    ELSE (IF Difficulties[k] \in DOMAIN dr THEN Len(dr[Difficulties[k]]) ELSE 0)
           * ENERGY_INCREMENT

\* the loop of calculateStartingEnergy: sum over the difficulties 0..k-1
\* (difficultyRanks[difficulties[i]]?.length || 0: a difficulty without a
\* rank list adds nothing)
cumulativeEnergy(k, dr) ==
    IF k <= 0 THEN 0
    ELSE cumulativeEnergy(k - 1, dr)
         + (IF Difficulties[k] \in DOMAIN dr THEN Len(dr[Difficulties[k]]) ELSE 0)
           * ENERGY_INCREMENT

\* a variant whose sum includes the difficulty itself
calculateStartingEnergy_inclusive(d, dr) ==
    cumulativeEnergy(indexOf(Difficulties, d) + 1, dr) + ENERGY_BASE

calculateStartingEnergy(d, dr) ==
    cumulativeEnergy(indexOf(Difficulties, d), dr) + ENERGY_BASE

StartingEnergies ==
    {calculateStartingEnergy(Difficulties[i], dr) :
        i \in 1..3, dr \in DifficultyRankSets}

-----------------------------------------------------------------------------
(* calculateOverallRank *)

RECURSIVE overallRankLoop(_, _, _, _)
\* a variant that starts one tier below the top of the rank list
overallRankLoop_skipTop(i, e, se, ranks) ==
    IF i < 0 THEN "Unranked"
    ELSE IF i < Len(ranks) - 1 /\ FGe(e, Num(se + i * ENERGY_INCREMENT)) THEN ranks[i + 1]
    ELSE overallRankLoop(i - 1, e, se, ranks)

\* a variant that requires the energy to be above the floor
overallRankLoop_strict(i, e, se, ranks) ==
    IF i < 0 THEN "Unranked"
    ELSE IF FLt(Num(se + i * ENERGY_INCREMENT), e) THEN ranks[i + 1]
    ELSE overallRankLoop(i - 1, e, se, ranks)

\* for (let i = ranks.length - 1; i >= 0; i--), ranks[i] being ranks[i + 1] here
overallRankLoop(i, e, se, ranks) ==
    IF i < 0 THEN "Unranked"
    ELSE IF FGe(e, Num(se + i * ENERGY_INCREMENT)) THEN ranks[i + 1]
    ELSE overallRankLoop(i - 1, e, se, ranks)

\* ranks.length of a difficulty without a rank list throws
calculateOverallRank(e, d, dr) ==
    IF d \notin DOMAIN dr THEN TypeError
    ELSE overallRankLoop(Len(dr[d]) - 1, e, calculateStartingEnergy(d, dr), dr[d])

-----------------------------------------------------------------------------
(* calculateScenarioEnergy *)

RECURSIVE insertSorted(_, _)
\* insertion behind every entry that is not greater: a stable sort step
insertSorted(e, sorted) ==
    IF sorted = <<>> THEN <<e>>
    ELSE IF e.threshold < Head(sorted).threshold THEN <<e>> \o sorted
    ELSE <<Head(sorted)>> \o insertSorted(e, Tail(sorted))

RECURSIVE sortByThreshold(_)
\* Object.entries(thresholds).sort(([, a], [, b]) => a - b).map(...)
sortByThreshold(entries) ==
    IF entries = <<>> THEN <<>>
    ELSE insertSorted(entries[Len(entries)],
                      sortByThreshold(SubSeq(entries, 1, Len(entries) - 1)))

\* lowestRank.threshold - (secondLowestRank.threshold - lowestRank.threshold)
fakeLowerThresholdOf(rankThresholds) ==
    rankThresholds[1].threshold
        - (rankThresholds[2].threshold - rankThresholds[1].threshold)

\* a variant that doubles the highest threshold instead of mirroring the gap
fakeUpperThresholdOf_doubled(rankThresholds) ==
    LET n == Len(rankThresholds)
    IN  rankThresholds[n].threshold + rankThresholds[n].threshold

\* highestRank.threshold + (highestRank.threshold - secondHighestRank.threshold)
fakeUpperThresholdOf(rankThresholds) ==
    LET n == Len(rankThresholds)
    IN  rankThresholds[n].threshold
            + (rankThresholds[n].threshold - rankThresholds[n - 1].threshold)

\* a variant that floors the energy at 0
belowFakeLowerEnergy_floored(s, fakeLowerThreshold, se) ==
    FMax(Num(0),
         FMul(FDiv(Num(s), Num(fakeLowerThreshold)), Num(se - ENERGY_INCREMENT)))

\* score below the fake lower threshold
belowFakeLowerEnergy(s, fakeLowerThreshold, se) ==
    FMul(FDiv(Num(s), Num(fakeLowerThreshold)), Num(se - ENERGY_INCREMENT))

\* a variant whose bracket starts at the starting energy
lowestBracketEnergy_fromStart(s, fakeLowerThreshold, lowestThreshold, se) ==
    LET progress == FDiv(Num(s - fakeLowerThreshold),
                         Num(lowestThreshold - fakeLowerThreshold))
    IN  FAdd(Num(se), FMul(progress, Num(ENERGY_INCREMENT)))

\* a variant whose bracket starts one increment too low
lowestBracketEnergy_twoBelow(s, fakeLowerThreshold, lowestThreshold, se) ==
    LET progress == FDiv(Num(s - fakeLowerThreshold),
                         Num(lowestThreshold - fakeLowerThreshold))
    IN  FAdd(Num(se - 2 * ENERGY_INCREMENT), FMul(progress, Num(ENERGY_INCREMENT)))

\* score between the fake lower threshold and the lowest real threshold
lowestBracketEnergy(s, fakeLowerThreshold, lowestThreshold, se) ==
    LET progress == FDiv(Num(s - fakeLowerThreshold),
                         Num(lowestThreshold - fakeLowerThreshold))
    IN  FAdd(Num(se - ENERGY_INCREMENT), FMul(progress, Num(ENERGY_INCREMENT)))

\* [FakeLower, ...rankThresholds, FakeUpper]
extendedThresholdsOf(rankThresholds) ==
    <<[rank |-> "FakeLower", threshold |-> fakeLowerThresholdOf(rankThresholds)]>>
    \o rankThresholds
    \o <<[rank |-> "FakeUpper", threshold |-> fakeUpperThresholdOf(rankThresholds)]>>

\* a variant that counts the brackets from i - 1 instead of i - 2
bracketEnergy_offByOne(i, s, previous, current, se) ==
    LET progress == FDiv(Num(s - previous.threshold),
                         Num(current.threshold - previous.threshold))
    IN  FAdd(Num(se + (i - 1) * ENERGY_INCREMENT),
             FMul(progress, Num(ENERGY_INCREMENT)))

\* a variant that measures the progress from 0 instead of from previous
bracketEnergy_progressFromZero(i, s, previous, current, se) ==
    LET progress == FDiv(Num(s), Num(current.threshold))
    IN  FAdd(Num(se + (i - 2) * ENERGY_INCREMENT),
             FMul(progress, Num(ENERGY_INCREMENT)))

\* the body of the loop for index i (0-based, as in the source) when the
\* score is inside [previous, current)
bracketEnergy(i, s, previous, current, se) ==
    LET progress == FDiv(Num(s - previous.threshold),
                         Num(current.threshold - previous.threshold))
    IN  FAdd(Num(se + (i - 2) * ENERGY_INCREMENT),
             FMul(progress, Num(ENERGY_INCREMENT)))

\* a variant that forgets the increment of the fake upper rank
saturatedEnergy_topTier(rankThresholds, se) ==
    Num(se + (Len(rankThresholds) - 1) * ENERGY_INCREMENT)

\* score is above the highest threshold
saturatedEnergy(rankThresholds, se) ==
    Num(se + (Len(rankThresholds) - 1) * ENERGY_INCREMENT + ENERGY_INCREMENT)

RECURSIVE bracketLoop(_, _, _, _)
\* for (let i = 1; i < extendedThresholds.length; i++) { ... }: the value
\* returned inside the loop, or the value returned after it
bracketLoop(i, s, rankThresholds, se) ==
    LET ext == extendedThresholdsOf(rankThresholds)
    IN  IF i >= Len(ext) THEN saturatedEnergy(rankThresholds, se)
        ELSE IF s >= ext[i].threshold /\ s < ext[i + 1].threshold
             THEN bracketEnergy(i, s, ext[i], ext[i + 1], se)
             ELSE bracketLoop(i + 1, s, rankThresholds, se)

\* a variant that uses the tiers in their declaration order
calculateScenarioEnergy_declarationOrder(s, th, se) ==
    LET rankThresholds == th
    IN  IF Len(rankThresholds) < 2 THEN TypeError
        ELSE LET fakeLowerThreshold == fakeLowerThresholdOf(rankThresholds)
             IN  IF s < fakeLowerThreshold
                 THEN belowFakeLowerEnergy(s, fakeLowerThreshold, se)
                 ELSE IF s < rankThresholds[1].threshold
                 THEN lowestBracketEnergy(s, fakeLowerThreshold,
                                          rankThresholds[1].threshold, se)
                 ELSE bracketLoop(1, s, rankThresholds, se)

calculateScenarioEnergy(s, th, se) ==
    LET rankThresholds == sortByThreshold(th)
    IN  IF Len(rankThresholds) < 2 THEN TypeError
        ELSE LET fakeLowerThreshold == fakeLowerThresholdOf(rankThresholds)
             IN  IF s < fakeLowerThreshold
                 THEN belowFakeLowerEnergy(s, fakeLowerThreshold, se)
                 ELSE IF s < rankThresholds[1].threshold
                 THEN lowestBracketEnergy(s, fakeLowerThreshold,
                                          rankThresholds[1].threshold, se)
                 ELSE bracketLoop(1, s, rankThresholds, se)

-----------------------------------------------------------------------------
(* calculateSubcategoryEnergy *)

\* scores[scenario]: the ScoreData of a scenario, Null when there is none
scoreDataOf(sc, scenario) ==
    IF scenario \in DOMAIN sc THEN sc[scenario] ELSE Null

\* a variant that swallows the failure of a scenario and skips it
forEachScenario_skipFailing(maxE, entry, sc, se) ==
    LET scoreData == scoreDataOf(sc, entry.scenario)
    IN  IF scoreData # Null
        THEN LET e == calculateScenarioEnergy(scoreData.highScore,
                                              entry.thresholds, se)
             IN  IF Threw(e) THEN maxE ELSE FMax(maxE, e)
        ELSE maxE

\* a variant that counts a scenario without ScoreData as a score of 0
forEachScenario_missingAsZero(maxE, entry, sc, se) ==
    LET scoreData == scoreDataOf(sc, entry.scenario)
        e == calculateScenarioEnergy(
                 IF scoreData # Null THEN scoreData.highScore ELSE 0,
                 entry.thresholds, se)
    IN  IF Threw(e) THEN TypeError ELSE FMax(maxE, e)

\* the callback of Object.entries(scenarios).forEach: the new value of
\* maxEnergy, or the TypeError thrown by calculateScenarioEnergy
forEachScenario(maxE, entry, sc, se) ==
    LET scoreData == scoreDataOf(sc, entry.scenario)
    IN  IF scoreData # Null
        THEN LET e == calculateScenarioEnergy(scoreData.highScore,
                                              entry.thresholds, se)
             IN  IF Threw(e) THEN TypeError ELSE FMax(maxE, e)
        ELSE maxE

RECURSIVE subcategoryLoop(_, _, _, _, _)
\* forEach over the entries i..Len(sn) in declaration order; a throw ends it
subcategoryLoop(i, maxE, sn, sc, se) ==
    IF i > Len(sn) THEN maxE
    ELSE LET r == forEachScenario(maxE, sn[i], sc, se)
         IN  IF Threw(r) THEN r ELSE subcategoryLoop(i + 1, r, sn, sc, se)

calculateSubcategoryEnergy(sn, sc, se) == subcategoryLoop(1, Num(0), sn, sc, se)

-----------------------------------------------------------------------------
(* Rank of a scenario's high score *)

RECURSIVE scoreRankLoop(_, _, _, _)
\* for (const [rank, threshold] of Object.entries(thresholds)) of renderTable
scoreRankLoop(i, r, entries, highScore) ==
    IF i > Len(entries) THEN r
    ELSE scoreRankLoop(i + 1,
                       IF highScore >= entries[i].threshold
                       THEN entries[i].rank ELSE r,
                       entries, highScore)

\* renderTable: "Determine the rank of the high score"
scoreRankOf(scoreData, th) ==
    IF scoreData # Null THEN scoreRankLoop(1, "Unranked", th, scoreData.highScore)
    ELSE "Unranked"

RECURSIVE highestRankInner(_, _, _, _)
\* the inner loop of getHighestScenarioRank over the tiers of one scenario;
\* acc is [highestRank, highestThresholdMet]
highestRankInner(i, acc, entries, highScore) ==
    IF i > Len(entries) THEN acc
    ELSE highestRankInner(
            i + 1,
            IF /\ highScore >= entries[i].threshold
               /\ FLt(acc.highestThresholdMet, Num(entries[i].threshold))
            THEN [highestRank |-> entries[i].rank,
                  highestThresholdMet |-> Num(entries[i].threshold)]
            ELSE acc,
            entries, highScore)

RECURSIVE highestRankOuter(_, _, _, _)
\* the forEach of getHighestScenarioRank over the scenarios
highestRankOuter(i, acc, sn, sc) ==
    IF i > Len(sn) THEN acc
    ELSE LET scoreData == scoreDataOf(sc, sn[i].scenario)
         IN  highestRankOuter(
                i + 1,
                IF scoreData # Null
                THEN highestRankInner(1, acc, sn[i].thresholds, scoreData.highScore)
                ELSE acc,
                sn, sc)

getHighestScenarioRank(sn, sc) ==
    highestRankOuter(1, [highestRank |-> "Unranked",
                         highestThresholdMet |-> NegInfinity], sn, sc).highestRank

-----------------------------------------------------------------------------
(* calculateHarmonicMean *)

RECURSIVE reciprocalSumOf(_, _)
\* a variant that sums the values instead of their reciprocals
reciprocalSumOf_plainSum(vals, k) ==
    IF k = 0 THEN Num(0)
    ELSE FAdd(reciprocalSumOf(vals, k - 1), vals[k])

\* values.reduce((sum, value) => sum + 1 / value, 0) over the first k values
reciprocalSumOf(vals, k) ==
    IF k = 0 THEN Num(0)
    ELSE FAdd(reciprocalSumOf(vals, k - 1), FDiv(Num(1), vals[k]))

\* a variant that forgets the number of values
calculateHarmonicMean_unweighted(vals, expected) ==
    IF Len(vals) # expected \/ \E i \in 1..Len(vals) : FEq(vals[i], Num(0))
    THEN Num(0)
    ELSE FDiv(Num(1), reciprocalSumOf(vals, Len(vals)))

\* a variant without the check of the number of values
calculateHarmonicMean_noCountCheck(vals, expected) ==
    IF \E i \in 1..Len(vals) : FEq(vals[i], Num(0)) THEN Num(0)
    ELSE FDiv(Num(Len(vals)), reciprocalSumOf(vals, Len(vals)))

calculateHarmonicMean(vals, expected) ==
    IF Len(vals) # expected \/ \E i \in 1..Len(vals) : FEq(vals[i], Num(0))
    THEN Num(0)
    ELSE FDiv(Num(Len(vals)), reciprocalSumOf(vals, Len(vals)))

-----------------------------------------------------------------------------
(* The catalogue (BenchmarkData): a difficulty maps to the sequence of its   *)
(* categories [category, subcategories], a category to the sequence of its  *)
(* subcategories [subcategory, scenarios], a subcategory to the sequence of *)
(* its scenarios [scenario, thresholds], all in the order of declaration.   *)

RECURSIVE ConcatAll(_)
\* the concatenation of a sequence of sequences (nested forEach loops)
ConcatAll(ss) ==
    IF Len(ss) = 0 THEN <<>> ELSE Head(ss) \o ConcatAll(Tail(ss))

\* Object.values(categories) then Object.values(subcategories)
subcategoriesOf(categories) ==
    ConcatAll([i \in 1..Len(categories) |-> categories[i].subcategories])

\* ... then Object.entries(scenarios)
scenarioEntriesOf(categories) ==
    LET subs == subcategoriesOf(categories)
    IN  ConcatAll([i \in 1..Len(subs) |-> subs[i].scenarios])

\* thresholds[rank] is truthy: the threshold map has the key and its
\* threshold is not 0
hasThreshold(th, r) ==
    \E i \in 1..Len(th) : th[i].rank = r /\ th[i].threshold # 0

\* thresholds[rank] of a threshold map that has the key
thresholdOf(th, r) ==
    (CHOOSE e \in {th[i] : i \in 1..Len(th)} : e.rank = r).threshold

-----------------------------------------------------------------------------
(* isRankComplete *)

RECURSIVE isRankCompleteLoop(_, _, _, _, _)
\* a variant in which a scenario without ScoreData blocks the rank
isRankCompleteLoop_missingBlocks(i, allScenariosComplete, entries, sc, r) ==
    IF i > Len(entries) THEN allScenariosComplete
    ELSE LET scoreData == scoreDataOf(sc, entries[i].scenario)
         IN  isRankCompleteLoop(
                 i + 1,
                 IF /\ hasThreshold(entries[i].thresholds, r)
                    /\ \/ scoreData = Null
                       \/ scoreData.highScore < thresholdOf(entries[i].thresholds, r)
                 THEN FALSE ELSE allScenariosComplete,
                 entries, sc, r)

\* the nested forEach loops of isRankComplete over the scenarios of the
\* difficulty: if (scoreData && thresholds[rank]) { if (highScore <
\* thresholds[rank]) allScenariosComplete = false }
isRankCompleteLoop(i, allScenariosComplete, entries, sc, r) ==
    IF i > Len(entries) THEN allScenariosComplete
    ELSE LET scoreData == scoreDataOf(sc, entries[i].scenario)
         IN  isRankCompleteLoop(
                 i + 1,
                 IF /\ scoreData # Null
                    /\ hasThreshold(entries[i].thresholds, r)
                    /\ scoreData.highScore < thresholdOf(entries[i].thresholds, r)
                 THEN FALSE ELSE allScenariosComplete,
                 entries, sc, r)

\* Object.values(benchmarkData[difficulty]) of a difficulty that the
\* catalogue does not have throws
isRankComplete(sc, data, d, r) ==
    IF d \notin DOMAIN data THEN TypeError
    ELSE isRankCompleteLoop(1, TRUE, scenarioEntriesOf(data[d]), sc, r)

-----------------------------------------------------------------------------
(* App: fetchData, fetchScores, calculateOverallRankForTab, renderOverallRank *)

\* allScenarios of fetchData: the scenario names of the whole catalogue
allScenariosOf(data) ==
    UNION {{scenarioEntriesOf(data[d])[i].scenario :
                i \in 1..Len(scenarioEntriesOf(data[d]))} : d \in DOMAIN data}

\* Object.keys(thresholds) of every scenario of a difficulty, in the order
\* in which fetchData visits them
rankKeysOf(categories) ==
    LET entries == scenarioEntriesOf(categories)
    IN  ConcatAll([i \in 1..Len(entries) |->
                      [j \in 1..Len(entries[i].thresholds) |->
                          entries[i].thresholds[j].rank]])

RECURSIVE arrayFromSet(_, _)
\* allRanks.add(rank) for every key, then Array.from(allRanks): the keys in
\* the order in which they were first added
arrayFromSet(allRanks, keys) ==
    IF Len(keys) = 0 THEN allRanks
    ELSE arrayFromSet(
            IF \E i \in 1..Len(allRanks) : allRanks[i] = Head(keys)
            THEN allRanks ELSE Append(allRanks, Head(keys)),
            Tail(keys))

\* "Extract difficulty ranks" of fetchData
extractRanks(data) ==
    [d \in DOMAIN data |-> arrayFromSet(<<>>, rankKeysOf(data[d]))]

\* the object fetchScores passes to setScores: a record for every requested
\* scenario, overwritten by the stats of the response
\* a variant without the initial records of the requested scenarios
fetchScoresResult_statsOnly(requested, stats) ==
    [n \in DOMAIN stats |-> [rank |-> "0", highScore |-> stats[n]]]

fetchScoresResult(requested, stats) ==
    [n \in requested \cup DOMAIN stats |->
        IF n \in DOMAIN stats
        THEN [rank |-> "0", highScore |-> stats[n]]
        ELSE [rank |-> "Unranked", highScore |-> 0]]

RECURSIVE totalSubcategoriesOf(_)
\* the reduce of calculateOverallRankForTab over the categories
totalSubcategoriesOf(categories) ==
    IF Len(categories) = 0 THEN 0
    ELSE Len(Head(categories).subcategories) + totalSubcategoriesOf(Tail(categories))

calculateOverallRankForTab(d, data, sc, dr) ==
    LET se == calculateStartingEnergy(d, dr)
    IN  IF data = Null THEN Num(0)
        ELSE IF d \notin DOMAIN data THEN TypeError
        ELSE LET subs == subcategoriesOf(data[d])
                 subcategoryEnergies ==
                     [i \in 1..Len(subs) |->
                         calculateSubcategoryEnergy(subs[i].scenarios, sc, se)]
             IN  IF \E i \in 1..Len(subs) : Threw(subcategoryEnergies[i])
                 THEN TypeError
                 ELSE calculateHarmonicMean(subcategoryEnergies,
                                            totalSubcategoriesOf(data[d]))

\* what App shows for the active tab: nothing while it shows "Loading...",
\* else the overall energy, the overall rank and the completion flag of
\* renderOverallRank, or the TypeError that one of the calls throws
renderOverallRank(data, sc, dr, tab) ==
    IF data = Null
    THEN [overallEnergy |-> Null, overallRank |-> Null, rankComplete |-> Null]
    ELSE LET e == calculateOverallRankForTab(tab, data, sc, dr)
         IN  IF Threw(e) \/ tab \notin DOMAIN dr
             THEN [overallEnergy |-> TypeError, overallRank |-> TypeError,
                   rankComplete |-> TypeError]
             ELSE LET r == calculateOverallRank(e, tab, dr)
                  IN  [overallEnergy |-> e, overallRank |-> r,
                       rankComplete |-> isRankComplete(sc, data, tab, r)]

-----------------------------------------------------------------------------
(* Specification of the scenario energy calculator: the threshold map and   *)
(* the starting energy are fixed, calculateScenarioEnergy is called on one  *)
(* score after the other.                                                   *)

InitEnergy ==
    /\ op = "init"
    /\ TableUnset /\ ResponseUnset
    /\ LadderUnset /\ AppUnset
    /\ thresholds \in ThresholdMaps
    /\ startingEnergy \in StartingEnergies
    /\ score = Null /\ energy = Null
    /\ prevScore = Null /\ prevEnergy = Null
    /\ scenarios = Null /\ scores = Null /\ maxEnergy = Null
    /\ scoreRank = Null /\ highestRank = Null
    /\ values = Null /\ expectedCount = Null /\ harmonicMean = Null

\* a variant that sorts the threshold map of the caller in place
CallScenarioEnergy_sortInPlace ==
    /\ \E s \in ScoreRange :
        /\ score' = s
        /\ energy' = calculateScenarioEnergy(s, thresholds, startingEnergy)
    /\ op' = "calculateScenarioEnergy"
    /\ prevScore' = score
    /\ prevEnergy' = energy
    /\ thresholds' = sortByThreshold(thresholds)
    /\ UNCHANGED <<startingEnergy, scenarios, scores, maxEnergy,
                   scoreRank, highestRank, values, expectedCount, harmonicMean>>
    /\ UNCHANGED <<ladderVars, appVars, tableVars, responseVars>>

CallScenarioEnergy ==
    /\ \E s \in ScoreRange :
        /\ score' = s
        /\ energy' = calculateScenarioEnergy(s, thresholds, startingEnergy)
    /\ op' = "calculateScenarioEnergy"
    /\ prevScore' = score
    /\ prevEnergy' = energy
    /\ UNCHANGED <<thresholds, startingEnergy, scenarios, scores, maxEnergy,
                   scoreRank, highestRank, values, expectedCount, harmonicMean>>
    /\ UNCHANGED <<ladderVars, appVars, tableVars, responseVars>>

NextEnergy == CallScenarioEnergy

SpecEnergy == InitEnergy /\ [][NextEnergy]_vars

-----------------------------------------------------------------------------
(* Specification of the subcategory aggregation: calculateSubcategoryEnergy *)
(* is called on a subcategory, a scores snapshot and a starting energy.     *)

\* the threshold maps of the scenarios of a subcategory, declared in
\* ascending threshold order
SubThresholdMaps ==
    UNION {{[i \in 1..k |-> [rank |-> RankNames[i], threshold |-> q[i]]] :
                q \in {r \in InjSeqs(1..MaxSubThreshold, k) :
                           \A i \in 1..(k - 1) : r[i] < r[i + 1]}} :
           k \in 0..MaxSubTiers}

\* the starting energies of the three difficulties when each has MaxRanks ranks
SubStartingEnergies ==
    {calculateStartingEnergy(
         Difficulties[i],
         [x \in {Difficulties[j] : j \in 1..3} |-> SubSeq(RankNames, 1, MaxRanks)]) :
     i \in 1..3}

\* the scenarios object of a subcategory: the i-th declared key is
\* ScenarioNames[i]
SubcategoriesOfLen(k) ==
    {[i \in 1..k |-> [scenario |-> ScenarioNames[i], thresholds |-> m[i]]] :
        m \in [1..k -> SubThresholdMaps]}

\* the scores snapshots over the scenarios of sn: any subset has ScoreData
ScoresOver(sn) ==
    UNION {[S -> {[highScore |-> h] : h \in SubScoreRange}] :
            S \in SUBSET {sn[i].scenario : i \in 1..Len(sn)}}

InitSub ==
    /\ op = "init"
    /\ TableUnset /\ ResponseUnset
    /\ LadderUnset /\ AppUnset
    /\ \E k \in 0..MaxScenarios : scenarios \in SubcategoriesOfLen(k)
    /\ scores \in ScoresOver(scenarios)
    /\ startingEnergy \in SubStartingEnergies
    /\ maxEnergy = Null
    /\ thresholds = Null /\ score = Null /\ energy = Null
    /\ prevScore = Null /\ prevEnergy = Null
    /\ scoreRank = Null /\ highestRank = Null
    /\ values = Null /\ expectedCount = Null /\ harmonicMean = Null

CallSubcategoryEnergy ==
    /\ op = "init"
    /\ op' = "calculateSubcategoryEnergy"
    /\ maxEnergy' = calculateSubcategoryEnergy(scenarios, scores, startingEnergy)
    /\ UNCHANGED <<thresholds, startingEnergy, score, energy, prevScore,
                   prevEnergy, scenarios, scores, scoreRank, highestRank,
                   values, expectedCount, harmonicMean>>
    /\ UNCHANGED <<ladderVars, appVars, tableVars, responseVars>>

NextSub == CallSubcategoryEnergy

SpecSub == InitSub /\ [][NextSub]_vars

-----------------------------------------------------------------------------
(* Specification of the rank resolver: the rank of one scenario's high      *)
(* score, as renderTable computes it and as getHighestScenarioRank does.    *)

InitRank ==
    /\ op = "init"
    /\ TableUnset /\ ResponseUnset
    /\ LadderUnset /\ AppUnset
    /\ thresholds \in ThresholdMaps
    /\ score \in ScoreRange
    /\ scoreRank = Null /\ highestRank = Null
    /\ startingEnergy = Null /\ energy = Null
    /\ prevScore = Null /\ prevEnergy = Null
    /\ scenarios = Null /\ scores = Null /\ maxEnergy = Null
    /\ values = Null /\ expectedCount = Null /\ harmonicMean = Null

\* the row of renderTable for the scenario
RenderScoreRank ==
    /\ op = "init"
    /\ op' = "scoreRank"
    /\ scoreRank' = scoreRankOf([highScore |-> score], thresholds)
    /\ UNCHANGED <<thresholds, startingEnergy, score, energy, prevScore,
                   prevEnergy, scenarios, scores, maxEnergy, highestRank,
                   values, expectedCount, harmonicMean>>
    /\ UNCHANGED <<ladderVars, appVars, tableVars, responseVars>>

\* getHighestScenarioRank on a subcategory that holds only this scenario
CallHighestScenarioRank ==
    /\ op = "init"
    /\ op' = "getHighestScenarioRank"
    /\ highestRank' = getHighestScenarioRank(
                          <<[scenario |-> ScenarioNames[1], thresholds |-> thresholds]>>,
                          [x \in {ScenarioNames[1]} |-> [highScore |-> score]])
    /\ UNCHANGED <<thresholds, startingEnergy, score, energy, prevScore,
                   prevEnergy, scenarios, scores, maxEnergy, scoreRank,
                   values, expectedCount, harmonicMean>>
    /\ UNCHANGED <<ladderVars, appVars, tableVars, responseVars>>

NextRank == RenderScoreRank \/ CallHighestScenarioRank

SpecRank == InitRank /\ [][NextRank]_vars

-----------------------------------------------------------------------------
(* Specification of the difficulty aggregate: calculateHarmonicMean is      *)
(* called on an array of subcategory energies and an expected count.        *)

\* subcategory energies: 0, NaN and some positive multiples of 100 / b
MeanValues ==
    {Num(0), NaN} \cup {Rat(100 * a, b) : a \in 1..MaxValueNum, b \in 1..3}

InitMean ==
    /\ op = "init"
    /\ TableUnset /\ ResponseUnset
    /\ LadderUnset /\ AppUnset
    /\ \E k \in 0..MaxValues : values \in [1..k -> MeanValues]
    /\ expectedCount \in 0..(MaxValues + 1)
    /\ harmonicMean = Null
    /\ thresholds = Null /\ startingEnergy = Null
    /\ score = Null /\ energy = Null
    /\ prevScore = Null /\ prevEnergy = Null
    /\ scenarios = Null /\ scores = Null /\ maxEnergy = Null
    /\ scoreRank = Null /\ highestRank = Null

CallHarmonicMean ==
    /\ op = "init"
    /\ op' = "calculateHarmonicMean"
    /\ harmonicMean' = calculateHarmonicMean(values, expectedCount)
    /\ UNCHANGED <<thresholds, startingEnergy, score, energy, prevScore,
                   prevEnergy, scenarios, scores, maxEnergy, scoreRank,
                   highestRank, values, expectedCount>>
    /\ UNCHANGED <<ladderVars, appVars, tableVars, responseVars>>

NextMean == CallHarmonicMean

SpecMean == InitMean /\ [][NextMean]_vars

-----------------------------------------------------------------------------
(* Specification of the rank ladder: the rank lists and the energy to       *)
(* classify are fixed, calculateStartingEnergy and calculateOverallRank are *)
(* called on them for one difficulty after the other.                       *)

DifficultySet == {Difficulties[i] : i \in 1..Len(Difficulties)}

\* rank lists of 0..MaxLadderRanks ranks
LadderRankLists == {SubSeq(RankNames, 1, k) : k \in 0..MaxLadderRanks}

\* difficultyRanks objects: any difficulty may have no rank list (the state
\* of App starts as {})
DifficultyRankInputs ==
    UNION {[D -> LadderRankLists] : D \in SUBSET DifficultySet}

\* energies: the multiples of 10 around every floor of the ladder, a negative
\* number and the non-finite numbers
EnergyInputs ==
    {Num(10 * j) : j \in (0 - 1)..(10 * (3 * MaxLadderRanks + 2))}
        \cup {NaN, PosInfinity, NegInfinity}

InitLadder ==
    /\ op = "init"
    /\ TableUnset /\ ResponseUnset
    /\ difficultyRanks \in DifficultyRankInputs
    /\ overallEnergy \in EnergyInputs
    /\ difficulty = Null /\ prevDifficulty = <<>> /\ prevStartingEnergy = <<>>
    /\ overallRank = Null
    /\ thresholds = Null /\ startingEnergy = Null /\ score = Null /\ energy = Null
    /\ prevScore = Null /\ prevEnergy = Null
    /\ scenarios = Null /\ scores = Null /\ maxEnergy = Null
    /\ scoreRank = Null /\ highestRank = Null
    /\ values = Null /\ expectedCount = Null /\ harmonicMean = Null
    /\ AppUnset

CallStartingEnergy ==
    \E d \in DifficultySet :
        /\ op' = "calculateStartingEnergy"
        /\ difficulty' = d
        /\ startingEnergy' = calculateStartingEnergy(d, difficultyRanks)
        /\ prevDifficulty' =
              IF op = "calculateStartingEnergy" THEN <<difficulty>> ELSE <<>>
        /\ prevStartingEnergy' =
              IF op = "calculateStartingEnergy" THEN <<startingEnergy>> ELSE <<>>
        /\ overallRank' = Null
        /\ UNCHANGED <<difficultyRanks, overallEnergy, thresholds, score, energy, prevScore,
                       prevEnergy, scenarios, scores, maxEnergy, scoreRank,
                       highestRank, values, expectedCount, harmonicMean, appVars,
                       tableVars, responseVars>>

CallOverallRank ==
    \E d \in DifficultySet :
        /\ op' = "calculateOverallRank"
        /\ difficulty' = d
        /\ startingEnergy' = calculateStartingEnergy(d, difficultyRanks)
        /\ overallRank' = calculateOverallRank(overallEnergy, d, difficultyRanks)
        /\ prevDifficulty' = <<>> /\ prevStartingEnergy' = <<>>
        /\ UNCHANGED <<difficultyRanks, overallEnergy, thresholds, score, energy, prevScore,
                       prevEnergy, scenarios, scores, maxEnergy, scoreRank,
                       highestRank, values, expectedCount, harmonicMean, appVars,
                       tableVars, responseVars>>

NextLadder == CallStartingEnergy \/ CallOverallRank

SpecLadder == InitLadder /\ [][NextLadder]_vars

-----------------------------------------------------------------------------
(* Catalogues: Novice has one category with the subcategory Static (s1,    *)
(* s2), Intermediate one category with the subcategory Static (s3),         *)
(* Advanced has no category.                                                *)

\* threshold maps of two tiers, Bronze below Silver, declared in any order:
\* the thresholds are distinct positive numbers and the tier with the k-th
\* smallest threshold is RankNames[k]
AppThresholdMaps ==
    {[i \in 1..2 |->
        [rank |-> RankNames[Cardinality({j \in 1..2 : q[j] <= q[i]})],
         threshold |-> q[i]]] :
        q \in InjSeqs(1..MaxAppThreshold, 2)}

\* the catalogue whose scenarios have the threshold maps mA (s1, s3) and
\* mB (s2)
Catalogue(mA, mB) ==
    [d \in DifficultySet |->
        IF d = "Novice"
        THEN <<[category |-> "Clicking",
                subcategories |->
                  <<[subcategory |-> "Static",
                     scenarios |-> <<[scenario |-> "s1", thresholds |-> mA],
                                     [scenario |-> "s2", thresholds |-> mB]>>]>>]>>
        ELSE IF d = "Intermediate"
        THEN <<[category |-> "Clicking",
                subcategories |->
                  <<[subcategory |-> "Static",
                     scenarios |-> <<[scenario |-> "s3", thresholds |-> mA]>>]>>]>>
        ELSE <<>>]

CatalogueScenarios == {"s1", "s2", "s3"}

-----------------------------------------------------------------------------
(* Specification of the completion checker: isRankComplete is called on a   *)
(* scores snapshot and a catalogue for one difficulty and rank after the    *)
(* other.                                                                   *)

\* catalogues in which s2 has the same tiers as the other scenarios or the
\* first declared one only
CompleteCatalogues ==
    UNION {{Catalogue(m, m), Catalogue(m, SubSeq(m, 1, 1))} :
            m \in AppThresholdMaps}

\* the scores snapshots: any subset of the scenarios has ScoreData
ScoreSnapshots ==
    UNION {[S -> {[highScore |-> h] : h \in 0..MaxAppScore}] :
            S \in SUBSET CatalogueScenarios}

InitComplete ==
    /\ op = "init"
    /\ TableUnset /\ ResponseUnset
    /\ benchmarkData \in CompleteCatalogues
    /\ scores \in ScoreSnapshots
    /\ rank = Null /\ rankComplete = Null
    /\ pending = Null /\ activeTab = Null
    /\ LadderUnset
    /\ thresholds = Null /\ startingEnergy = Null /\ score = Null /\ energy = Null
    /\ prevScore = Null /\ prevEnergy = Null
    /\ scenarios = Null /\ maxEnergy = Null
    /\ scoreRank = Null /\ highestRank = Null
    /\ values = Null /\ expectedCount = Null /\ harmonicMean = Null

CallIsRankComplete ==
    \E d \in DifficultySet, r \in {"Bronze", "Silver", "Unranked"} :
        /\ op' = "isRankComplete"
        /\ difficulty' = d
        /\ rank' = r
        /\ rankComplete' = isRankComplete(scores, benchmarkData, d, r)
        /\ UNCHANGED <<thresholds, startingEnergy, score, energy, prevScore,
                       prevEnergy, scenarios, scores, maxEnergy, scoreRank,
                       highestRank, values, expectedCount, harmonicMean,
                       difficultyRanks, prevDifficulty, prevStartingEnergy,
                       overallEnergy, overallRank,
                       benchmarkData, pending, activeTab,
                       tableVars, responseVars>>

NextComplete == CallIsRankComplete

SpecComplete == InitComplete /\ [][NextComplete]_vars

-----------------------------------------------------------------------------
(* Specification of App: the component is mounted and fetchData has issued  *)
(* the fetch of the catalogue; the fetch and the get_stats calls complete   *)
(* or fail in any order, the user refreshes the scores and changes the tab. *)
(* What App renders is a function of its state: renderOverallRank.          *)

AppCatalogues == {Catalogue(m, m) : m \in AppThresholdMaps}

\* the stats of a get_stats response: a score for any of the requested
\* scenarios
StatsResponses(requested) ==
    UNION {[S -> 0..MaxAppScore] : S \in SUBSET requested}

\* the arguments and results of the engine's functions, which App does not
\* keep in its state
callVars == <<thresholds, startingEnergy, score, energy, prevScore,
              prevEnergy, scenarios, maxEnergy, scoreRank, highestRank,
              values, expectedCount, harmonicMean,
              difficulty, rank, prevDifficulty, prevStartingEnergy,
              overallEnergy, overallRank, rankComplete, tableVars>>

\* the sequence without its k-th element
RemoveAt(q, k) == SubSeq(q, 1, k - 1) \o SubSeq(q, k + 1, Len(q))

\* a get_stats call in flight: the scenarios fetchScores was called with
getStatsCall(requested) ==
    [call |-> "get_stats", scenarios |-> requested]

InitApp ==
    /\ op = "init"
    /\ TableUnset
    /\ applied = Null
    /\ rustResponse = <<>>
    /\ benchmarkData = Null
    /\ scores = <<>>
    /\ difficultyRanks = <<>>
    /\ pending = <<[call |-> "fetch"]>>
    /\ activeTab \in DifficultySet
    /\ overallEnergy = Null /\ overallRank = Null /\ rankComplete = Null
    /\ difficulty = Null /\ rank = Null
    /\ prevDifficulty = Null /\ prevStartingEnergy = Null
    /\ thresholds = Null /\ startingEnergy = Null /\ score = Null /\ energy = Null
    /\ prevScore = Null /\ prevEnergy = Null
    /\ scenarios = Null /\ maxEnergy = Null
    /\ scoreRank = Null /\ highestRank = Null
    /\ values = Null /\ expectedCount = Null /\ harmonicMean = Null

\* fetchData after the response of the fetch: setBenchmarkData,
\* setDifficultyRanks and the get_stats call of fetchScores
FetchDataResponse ==
    \E k \in 1..Len(pending), data \in AppCatalogues :
        /\ pending[k].call = "fetch"
        /\ op' = "fetchData"
        /\ benchmarkData' = data
        /\ difficultyRanks' = extractRanks(data)
        /\ pending' = Append(RemoveAt(pending, k),
                             getStatsCall(allScenariosOf(data)))
        /\ UNCHANGED <<scores, activeTab, callVars, responseVars>>

\* the fetch of the catalogue fails: fetchData logs the error
FetchDataError ==
    \E k \in 1..Len(pending) :
        /\ pending[k].call = "fetch"
        /\ op' = "fetchData failed"
        /\ pending' = RemoveAt(pending, k)
        /\ UNCHANGED <<benchmarkData, difficultyRanks, scores, activeTab, callVars,
                       responseVars>>

\* fetchScores after the response of get_stats: setScores(initialScores)
FetchScoresResponse ==
    \E k \in 1..Len(pending) :
        /\ pending[k].call = "get_stats"
        /\ \E stats \in StatsResponses(pending[k].scenarios) :
              /\ scores' = fetchScoresResult(pending[k].scenarios, stats)
              /\ rustResponse' = stats
        /\ applied' = pending[k]
        /\ op' = "fetchScores"
        /\ pending' = RemoveAt(pending, k)
        /\ UNCHANGED <<benchmarkData, difficultyRanks, activeTab, callVars>>

\* a variant whose catch block clears the scores
FetchScoresError_clearScores ==
    \E k \in 1..Len(pending) :
        /\ pending[k].call = "get_stats"
        /\ op' = "fetchScores failed"
        /\ pending' = RemoveAt(pending, k)
        /\ scores' = <<>>
        /\ UNCHANGED <<benchmarkData, difficultyRanks, activeTab, callVars,
                       responseVars>>

\* get_stats fails: fetchScores logs the error
FetchScoresError ==
    \E k \in 1..Len(pending) :
        /\ pending[k].call = "get_stats"
        /\ op' = "fetchScores failed"
        /\ pending' = RemoveAt(pending, k)
        /\ UNCHANGED <<benchmarkData, difficultyRanks, scores, activeTab, callVars,
                       responseVars>>

\* refreshScores (the R hotkey or the refresh button): the get_stats call of
\* fetchScores(Object.keys(scores))
RefreshScores ==
    /\ Len(pending) < MaxPending
    /\ op' = "refreshScores"
    /\ pending' = Append(pending, getStatsCall(DOMAIN scores))
    /\ UNCHANGED <<benchmarkData, difficultyRanks, scores, activeTab, callVars,
                   responseVars>>

\* the user selects a tab
SetActiveTab ==
    \E t \in DOMAIN difficultyRanks :
        /\ benchmarkData # Null
        /\ t # activeTab
        /\ op' = "setActiveTab"
        /\ activeTab' = t
        /\ UNCHANGED <<benchmarkData, difficultyRanks, scores, pending, callVars,
                       responseVars>>

NextApp ==
    \/ FetchDataResponse
    \/ FetchDataError
    \/ FetchScoresResponse
    \/ FetchScoresError
    \/ RefreshScores
    \/ SetActiveTab

SpecApp == InitApp /\ [][NextApp]_vars

-----------------------------------------------------------------------------
(* renderTable: the progress cell of a scenario *)

RECURSIVE currentRankIndexLoop(_, _, _, _)
\* for (let i = 0; i < rankThresholds.length; i++)
\*     if (highScore >= rankThresholds[i][1]) currentRankIndex = i
\* with 1-based indices: 0 stands for the initial -1
currentRankIndexLoop(i, currentRankIndex, rankThresholds, highScore) ==
    IF i > Len(rankThresholds) THEN currentRankIndex
    ELSE currentRankIndexLoop(
             i + 1,
             IF highScore >= rankThresholds[i].threshold THEN i ELSE currentRankIndex,
             rankThresholds, highScore)

\* a variant that measures the progress inside a tier from 0
tierProgress_fromZero(highScore, currentThreshold, nextThreshold) ==
    FMul(FDiv(Num(highScore), Num(nextThreshold)), Num(100))

\* ((highScore - currentThreshold) / (nextThreshold - currentThreshold)) * 100
tierProgress(highScore, currentThreshold, nextThreshold) ==
    FMul(FDiv(Num(highScore - currentThreshold),
              Num(nextThreshold - currentThreshold)), Num(100))

\* let progress = 0; if (scoreData && thresholds) { ... }, for a scenario
\* that has ScoreData
progressOf(highScore, th) ==
    LET rankThresholds == sortByThreshold(th)
    IN  IF Len(rankThresholds) = 0 THEN TypeError
        ELSE IF highScore < rankThresholds[1].threshold
        THEN FMul(FDiv(Num(highScore), Num(rankThresholds[1].threshold)), Num(100))
        ELSE LET currentRankIndex ==
                     currentRankIndexLoop(1, 0, rankThresholds, highScore)
             IN  IF currentRankIndex < Len(rankThresholds)
                 THEN tierProgress(highScore,
                                   rankThresholds[currentRankIndex].threshold,
                                   rankThresholds[currentRankIndex + 1].threshold)
                 ELSE Num(100)

-----------------------------------------------------------------------------
(* renderTable: the energy of a subcategory computed inline, and the       *)
(* calculateSubcategoryEnergy that the former App component defined        *)

\* highestRank.threshold + (highestRank.threshold - secondHighestRank.threshold)
fakeRankThresholdOf(rankThresholds) ==
    LET n == Len(rankThresholds)
    IN  rankThresholds[n].threshold
            + (rankThresholds[n].threshold - rankThresholds[n - 1].threshold)

\* rankThresholds.push({ rank: "Fake", threshold: fakeRankThreshold })
pushFakeRank(rankThresholds) ==
    Append(rankThresholds,
           [rank |-> "Fake", threshold |-> fakeRankThresholdOf(rankThresholds)])

\* a variant that forgets the bonus of the fake rank
inlineFakeRankEnergy_noBonus(rankThresholds, se) ==
    Num(se + (Len(rankThresholds) - 1) * ENERGY_INCREMENT)

\* startingEnergy + (rankThresholds.length - 1) * ENERGY_INCREMENT + 100,
\* computed before the fake rank is pushed
inlineFakeRankEnergy(rankThresholds, se) ==
    Num(se + (Len(rankThresholds) - 1) * ENERGY_INCREMENT + 100)

\* startingEnergy + i * ENERGY_INCREMENT + progress * ENERGY_INCREMENT
\* (i is 0-based, as in the source)
inlineBracketEnergy(i, highScore, current, next, se) ==
    LET progress == FDiv(Num(highScore - current.threshold),
                         Num(next.threshold - current.threshold))
    IN  FAdd(Num(se + i * ENERGY_INCREMENT), FMul(progress, Num(ENERGY_INCREMENT)))

RECURSIVE inlineEnergyLoop(_, _, _, _, _, _)
\* for (let i = 0; i < rankThresholds.length; i++) { ... } of renderTable:
\* maxE is maxEnergy, ext is rankThresholds after the push
inlineEnergyLoop(i, maxE, highScore, ext, se, fakeRankEnergy) ==
    IF i >= Len(ext) THEN maxE
    ELSE LET current == ext[i + 1]
             hasNext == i + 2 <= Len(ext)
         IN  IF highScore < current.threshold
             THEN FMax(maxE, Num(0))
             ELSE IF hasNext /\ highScore < ext[i + 2].threshold
             THEN FMax(maxE, inlineBracketEnergy(i, highScore, current, ext[i + 2], se))
             ELSE IF ~hasNext
             THEN inlineEnergyLoop(i + 1, FMax(maxE, fakeRankEnergy),
                                   highScore, ext, se, fakeRankEnergy)
             ELSE inlineEnergyLoop(i + 1, maxE, highScore, ext, se, fakeRankEnergy)

\* maxEnergy of renderTable for a subcategory of one scenario that has
\* ScoreData: let maxEnergy = 0, then the body of the forEach
inlineMaxEnergy(highScore, th, se) ==
    LET rankThresholds == sortByThreshold(th)
    IN  IF Len(rankThresholds) < 2 THEN TypeError
        ELSE inlineEnergyLoop(0, Num(0), highScore, pushFakeRank(rankThresholds),
                              se, inlineFakeRankEnergy(rankThresholds, se))

RECURSIVE legacyEnergyLoop(_, _, _, _, _)
\* for (let i = 0; i < rankThresholds.length; i++) { ... } of the former
\* calculateSubcategoryEnergy: fakeRankEnergy is computed after the push
legacyEnergyLoop(i, maxE, highScore, ext, se) ==
    IF i >= Len(ext) THEN maxE
    ELSE LET current == ext[i + 1]
             hasNext == i + 2 <= Len(ext)
         IN  IF highScore >= current.threshold
             THEN IF hasNext /\ highScore < ext[i + 2].threshold
                  THEN FMax(maxE, inlineBracketEnergy(i, highScore, current,
                                                      ext[i + 2], se))
                  ELSE IF ~hasNext
                  THEN legacyEnergyLoop(
                           i + 1,
                           FMax(maxE, Num(se + (Len(ext) - 1) * ENERGY_INCREMENT)),
                           highScore, ext, se)
                  ELSE legacyEnergyLoop(i + 1, maxE, highScore, ext, se)
             ELSE legacyEnergyLoop(i + 1, maxE, highScore, ext, se)

\* the former calculateSubcategoryEnergy on a subcategory of one scenario
\* that has ScoreData
legacySubcategoryEnergy(highScore, th, se) ==
    LET rankThresholds == sortByThreshold(th)
    IN  IF Len(rankThresholds) = 0 THEN TypeError
        ELSE IF highScore < rankThresholds[1].threshold
        THEN FMax(Num(0), FMul(Num(se), FDiv(Num(highScore),
                                             Num(rankThresholds[1].threshold))))
        ELSE IF Len(rankThresholds) < 2 THEN TypeError
        ELSE legacyEnergyLoop(0, Num(0), highScore, pushFakeRank(rankThresholds), se)

-----------------------------------------------------------------------------
(* Specification of the cells of renderTable for one scenario: its         *)
(* progress, the energy computed inline and the energy of the former       *)
(* calculateSubcategoryEnergy, on one threshold map and one high score.    *)

InitTable ==
    /\ op = "init"
    /\ TableUnset /\ ResponseUnset
    /\ LadderUnset /\ AppUnset
    /\ thresholds \in ThresholdMaps
    /\ startingEnergy \in StartingEnergies
    /\ score \in ScoreRange
    /\ energy = Null
    /\ prevScore = Null /\ prevEnergy = Null
    /\ scenarios = Null /\ scores = Null /\ maxEnergy = Null
    /\ scoreRank = Null /\ highestRank = Null
    /\ values = Null /\ expectedCount = Null /\ harmonicMean = Null

tableFrame == <<thresholds, startingEnergy, score, energy, prevScore,
                prevEnergy, scenarios, scores, maxEnergy, scoreRank, highestRank,
                values, expectedCount, harmonicMean, ladderVars, appVars,
                responseVars>>

\* the progress cell of the row
RenderProgress ==
    /\ op = "init"
    /\ op' = "progress"
    /\ scenarioProgress' = progressOf(score, thresholds)
    /\ UNCHANGED <<inlineEnergy, legacyEnergy, tableFrame>>

\* the energy cell of the subcategory, computed inline
RenderInlineEnergy ==
    /\ op = "init"
    /\ op' = "inlineEnergy"
    /\ inlineEnergy' = inlineMaxEnergy(score, thresholds, startingEnergy)
    /\ UNCHANGED <<scenarioProgress, legacyEnergy, tableFrame>>

\* the energy cell of the subcategory in the former component
RenderLegacyEnergy ==
    /\ op = "init"
    /\ op' = "legacyEnergy"
    /\ legacyEnergy' = legacySubcategoryEnergy(score, thresholds, startingEnergy)
    /\ UNCHANGED <<scenarioProgress, inlineEnergy, tableFrame>>

NextTable == RenderProgress \/ RenderInlineEnergy \/ RenderLegacyEnergy

SpecTable == InitTable /\ [][NextTable]_vars

-----------------------------------------------------------------------------
(* Specification of the refreshes of a loaded App: fetchData has stored the *)
(* catalogue and made its get_stats call; the user refreshes while calls    *)
(* are in flight. Every call in flight carries its caller and whether the   *)
(* response of a call made after it has already been applied.               *)

\* a get_stats call in flight with its history
trackedCall(requested, caller) ==
    [call |-> "get_stats", scenarios |-> requested, source |-> caller,
     overtaken |-> FALSE]

\* the first n calls in flight were made before the call whose response
\* setScores has just applied
overtake(calls, n) ==
    [i \in 1..Len(calls) |->
        IF i <= n THEN [calls[i] EXCEPT !.overtaken = TRUE] ELSE calls[i]]

\* App after fetchData has called setBenchmarkData, setDifficultyRanks and
\* fetchScores(allScenarios)
InitRefresh ==
    /\ op = "init"
    /\ TableUnset
    /\ applied = Null
    /\ rustResponse = <<>>
    /\ benchmarkData \in AppCatalogues
    /\ scores = <<>>
    /\ difficultyRanks = extractRanks(benchmarkData)
    /\ pending = <<trackedCall(allScenariosOf(benchmarkData), "fetchData")>>
    /\ activeTab \in DifficultySet
    /\ overallEnergy = Null /\ overallRank = Null /\ rankComplete = Null
    /\ difficulty = Null /\ rank = Null
    /\ prevDifficulty = Null /\ prevStartingEnergy = Null
    /\ thresholds = Null /\ startingEnergy = Null /\ score = Null /\ energy = Null
    /\ prevScore = Null /\ prevEnergy = Null
    /\ scenarios = Null /\ maxEnergy = Null
    /\ scoreRank = Null /\ highestRank = Null
    /\ values = Null /\ expectedCount = Null /\ harmonicMean = Null

\* fetchScores after the response of get_stats: setScores(initialScores)
ApplyScoresResponse ==
    \E k \in 1..Len(pending) :
        /\ \E stats \in StatsResponses(pending[k].scenarios) :
              /\ scores' = fetchScoresResult(pending[k].scenarios, stats)
              /\ rustResponse' = stats
        /\ applied' = pending[k]
        /\ op' = "fetchScores"
        /\ pending' = overtake(RemoveAt(pending, k), k - 1)
        /\ UNCHANGED <<benchmarkData, difficultyRanks, activeTab, callVars>>

\* get_stats fails: fetchScores logs the error
DropScoresResponse ==
    \E k \in 1..Len(pending) :
        /\ op' = "fetchScores failed"
        /\ pending' = RemoveAt(pending, k)
        /\ UNCHANGED <<benchmarkData, difficultyRanks, scores, activeTab, callVars,
                       responseVars>>

\* refreshScores: the get_stats call of fetchScores(Object.keys(scores))
IssueRefresh ==
    /\ Len(pending) < MaxPending
    /\ op' = "refreshScores"
    /\ pending' = Append(pending, trackedCall(DOMAIN scores, "refreshScores"))
    /\ UNCHANGED <<benchmarkData, difficultyRanks, scores, activeTab, callVars,
                   responseVars>>

NextRefresh ==
    \/ ApplyScoresResponse
    \/ DropScoresResponse
    \/ IssueRefresh

SpecRefresh == InitRefresh /\ [][NextRefresh]_vars

-----------------------------------------------------------------------------
(* Specification of the engine on one snapshot: a catalogue, a scores       *)
(* snapshot and an energy are fixed, and one of the engine's functions is   *)
(* called on them the way renderTable and renderOverallRank call it for     *)
(* Novice: on the rank lists of the catalogue, on its first subcategory, on *)
(* the first threshold map of that subcategory and on the array of the      *)
(* subcategory energies.                                                    *)

InitEngine ==
    /\ op = "init"
    /\ TableUnset /\ ResponseUnset
    /\ benchmarkData \in AppCatalogues
    /\ scores \in ScoreSnapshots
    /\ overallEnergy \in {Num(100), Num(250)}
    /\ difficultyRanks = extractRanks(benchmarkData)
    /\ startingEnergy = calculateStartingEnergy("Novice", difficultyRanks)
    /\ scenarios = subcategoriesOf(benchmarkData["Novice"])[1].scenarios
    /\ thresholds = scenarios[1].thresholds
    /\ values = <<calculateSubcategoryEnergy(scenarios, scores, startingEnergy)>>
    /\ expectedCount = totalSubcategoriesOf(benchmarkData["Novice"])
    /\ difficulty = Null /\ prevDifficulty = <<>> /\ prevStartingEnergy = <<>>
    /\ overallRank = Null /\ rank = Null /\ rankComplete = Null
    /\ pending = Null /\ activeTab = Null
    /\ score = Null /\ energy = Null /\ prevScore = Null /\ prevEnergy = Null
    /\ maxEnergy = Null /\ scoreRank = Null /\ highestRank = Null
    /\ harmonicMean = Null

NextEngine ==
    \/ op = "init" /\ CallStartingEnergy
    \/ op = "init" /\ CallScenarioEnergy
    \/ op = "init" /\ CallSubcategoryEnergy
    \/ op = "init" /\ CallHarmonicMean
    \/ op = "init" /\ CallOverallRank
    \/ op = "init" /\ CallIsRankComplete

SpecEngine == InitEngine /\ [][NextEngine]_vars

-----------------------------------------------------------------------------
(* Vocabulary of the properties of calculateScenarioEnergy *)

\* the tiers of a threshold map in ascending threshold order, T[1..n]
Ascending(th) ==
    CHOOSE q \in [1..Len(th) -> {th[i].threshold : i \in 1..Len(th)}] :
        /\ \A i \in 1..(Len(th) - 1) : q[i] < q[i + 1]
        /\ {q[i] : i \in 1..Len(th)} = {th[i].threshold : i \in 1..Len(th)}

NumTiers == Len(thresholds)
T(i) == Ascending(thresholds)[i]
FakeLower == T(1) - (T(2) - T(1))
FakeUpper == T(NumTiers) + (T(NumTiers) - T(NumTiers - 1))

\* the extended sequence [FakeLower, T[1], ..., T[n], FakeUpper], k in 0..n+1
Boundary(k) ==
    IF k = 0 THEN FakeLower
    ELSE IF k = NumTiers + 1 THEN FakeUpper
    ELSE T(k)

\* the energy level of the k-th element of the extended sequence
Level(k) == startingEnergy + (k - 1) * ENERGY_INCREMENT

\* a call of calculateScenarioEnergy on a valid threshold map has returned
EnergyComputed == op = "calculateScenarioEnergy" /\ NumTiers >= 2

\* ... and the call before it, on the same map, has returned too
TwoEnergiesComputed == EnergyComputed /\ prevEnergy # Null

\* C1: monotonicity of calculateScenarioEnergy: for a fixed valid threshold
\* map and a fixed starting energy, two non-negative scores s1 <= s2 give
\* energy(s1) <= energy(s2), whatever branches the two scores fall in.
C1_Monotonic ==
    (TwoEnergiesComputed /\ 0 <= prevScore /\ prevScore <= score)
        => FLe(prevEnergy, energy)

\* a score below FakeLower followed by a saturated score, strictly more energy
C1_Witness ==
    /\ TwoEnergiesComputed
    /\ 0 <= prevScore /\ prevScore < FakeLower
    /\ score >= FakeUpper
    /\ FLt(prevEnergy, energy)

\* C2 as stated: for every non-negative score the energy lies in
\* [startingEnergy - 100, startingEnergy + 100 * n].
C2_RangeAsStated ==
    (EnergyComputed /\ score >= 0)
        => /\ FLe(Num(startingEnergy - 100), energy)
           /\ FLe(energy, Num(startingEnergy + 100 * NumTiers))

\* C2 amended: for a non-negative score at or above FakeLower the energy
\* lies in [startingEnergy - 100, startingEnergy + 100 * n]; for a
\* non-negative score below FakeLower it lies in [0, startingEnergy - 100].
C2_Range ==
    (EnergyComputed /\ score >= 0)
        => /\ score >= FakeLower =>
                /\ FLe(Num(startingEnergy - 100), energy)
                /\ FLe(energy, Num(startingEnergy + 100 * NumTiers))
           /\ score < FakeLower =>
                /\ FLe(Num(0), energy)
                /\ FLe(energy, Num(startingEnergy - 100))

\* a non-negative score below FakeLower whose energy is under startingEnergy - 100
C2_Witness ==
    /\ EnergyComputed
    /\ 0 <= score /\ score < FakeLower
    /\ startingEnergy > ENERGY_BASE
    /\ FLt(energy, Num(startingEnergy - 100))

\* C3: saturation: every score >= FakeUpper gives exactly
\* startingEnergy + 100 * n, the same value for all such scores.
C3_Saturation ==
    /\ (EnergyComputed /\ score >= FakeUpper)
          => energy = Num(startingEnergy + 100 * NumTiers)
    /\ (TwoEnergiesComputed /\ score >= FakeUpper /\ prevScore >= FakeUpper)
          => energy = prevEnergy

\* two different scores at and beyond FakeUpper
C3_Witness ==
    /\ TwoEnergiesComputed
    /\ prevScore = FakeUpper /\ score > FakeUpper
    /\ energy = Num(startingEnergy + 100 * NumTiers)

\* C4: boundary continuity: the energy returned at a boundary of the
\* extended sequence is the level of that boundary (startingEnergy - 100 at
\* FakeLower, startingEnergy + 100 * i at T[i], startingEnergy + 100 * n at
\* FakeUpper), and the energies returned inside the bracket below the
\* boundary lie on the straight line that reaches this level at the
\* boundary (progress 1); below FakeLower (when a non-negative score can be
\* there) the proportional rule reaches the level of FakeLower as well.
C4_BoundaryContinuity ==
    /\ \A k \in 0..(NumTiers + 1) :
          (EnergyComputed /\ score = Boundary(k)) => energy = Num(Level(k))
    /\ \A k \in 1..(NumTiers + 1) :
          (/\ TwoEnergiesComputed
           /\ score = Boundary(k)
           /\ Boundary(k - 1) <= prevScore /\ prevScore < Boundary(k))
              => FSub(energy, prevEnergy)
                   = Rat(100 * (score - prevScore), Boundary(k) - Boundary(k - 1))
    /\ (/\ TwoEnergiesComputed
        /\ FakeLower > 0 /\ score = FakeLower
        /\ prevScore < FakeLower)
          => FMul(prevEnergy, Num(score)) = FMul(energy, Num(prevScore))

\* a score strictly inside a bracket followed by the boundary above it
C4_Witness ==
    /\ TwoEnergiesComputed
    /\ \E k \in 1..(NumTiers + 1) :
          /\ score = Boundary(k)
          /\ Boundary(k - 1) < prevScore /\ prevScore < Boundary(k)
          /\ energy = Num(Level(k))
          /\ FLt(prevEnergy, energy)

\* C5: interpolation: a score inside the bracket [previous, current) of the
\* extended sequence gets the level of previous plus
\* 100 * (score - previous) / (current - previous); thresholds
\* {Bronze: 100, Silver: 200, Gold: 400}, score 250 and startingEnergy 100
\* give 225.
C5_Interpolation ==
    /\ \A k \in 0..NumTiers :
          (EnergyComputed /\ Boundary(k) <= score /\ score < Boundary(k + 1))
              => energy = FAdd(Num(Level(k)),
                               Rat(100 * (score - Boundary(k)),
                                   Boundary(k + 1) - Boundary(k)))
    /\ calculateScenarioEnergy(250,
            <<[rank |-> "Bronze", threshold |-> 100],
              [rank |-> "Silver", threshold |-> 200],
              [rank |-> "Gold", threshold |-> 400]>>, 100) = Num(225)

\* a score strictly inside a bracket between two real tiers
C5_Witness ==
    /\ EnergyComputed
    /\ \E k \in 1..(NumTiers - 1) :
          /\ T(k) < score /\ score < T(k + 1)
          /\ FLt(Num(Level(k)), energy) /\ FLt(energy, Num(Level(k + 1)))

\* C6: below FakeLower the energy is (score / FakeLower) * (startingEnergy - 100)
\* with no floor or clamp: energy * FakeLower = score * (startingEnergy - 100)
\* (with FakeLower = 0 the division gives -Infinity, and NaN once multiplied
\* by 0), so that a negative score can give a negative energy.
C6_BelowFakeLower ==
    (EnergyComputed /\ score < FakeLower)
        => IF FakeLower # 0
           THEN /\ IsFinite(energy)
                /\ energy.n * FakeLower = score * (startingEnergy - 100) * energy.d
           ELSE energy = (IF startingEnergy = 100 THEN NaN ELSE NegInfinity)

\* a negative score below a positive FakeLower with a negative energy
C6_Witness ==
    /\ EnergyComputed
    /\ score < 0 /\ FakeLower > 0
    /\ FLt(energy, Num(0))

-----------------------------------------------------------------------------
(* Properties of calculateSubcategoryEnergy *)

SubEnergyComputed == op = "calculateSubcategoryEnergy"

\* the entries of the subcategory that have a score record
Scored == {i \in 1..Len(scenarios) : scenarios[i].scenario \in DOMAIN scores}

HighScore(i) == scores[scenarios[i].scenario].highScore

\* the scored entries whose threshold map has fewer than 2 tiers
ScoredInsufficient == {i \in Scored : Len(scenarios[i].thresholds) < 2}

\* C7: InsufficientTiers: calculateScenarioEnergy on a threshold map of 0 or
\* 1 tiers throws instead of returning an energy, for every score, and
\* calculateSubcategoryEnergy throws too as soon as one scored scenario of
\* the subcategory has such a map (no partial maximum); without such a
\* scenario it returns a number.
C7_InsufficientTiers ==
    SubEnergyComputed =>
        /\ \A i \in 1..Len(scenarios) :
              Len(scenarios[i].thresholds) < 2 =>
                  \A s \in SubScoreRange :
                      calculateScenarioEnergy(s, scenarios[i].thresholds,
                                              startingEnergy) = TypeError
        /\ (ScoredInsufficient # {}) => maxEnergy = TypeError
        /\ (ScoredInsufficient = {}) => ~Threw(maxEnergy)

\* a valid scored scenario of positive energy declared before a scored
\* scenario of a single tier: the call fails
C7_Witness ==
    /\ SubEnergyComputed
    /\ Len(scenarios) = 2
    /\ Scored = {1, 2}
    /\ Len(scenarios[1].thresholds) = 2
    /\ HighScore(1) >= scenarios[1].thresholds[1].threshold
    /\ Len(scenarios[2].thresholds) = 1
    /\ maxEnergy = TypeError

\* the energies of the scored scenarios
ScoredEnergies ==
    {calculateScenarioEnergy(HighScore(i), scenarios[i].thresholds,
                             startingEnergy) : i \in Scored}

\* C9: calculateSubcategoryEnergy returns the maximum of
\* calculateScenarioEnergy over exactly the scenarios that have a score
\* record (non-negative high scores, valid threshold maps); a scenario
\* without a score record is left out of the maximum, and the result is 0
\* when no scenario has a score record.
C9_MaxOverScored ==
    (/\ SubEnergyComputed
     /\ ScoredInsufficient = {}
     /\ \A i \in Scored : HighScore(i) >= 0)
        => IF Scored = {} THEN maxEnergy = Num(0)
           ELSE /\ maxEnergy \in ScoredEnergies
                /\ \A e \in ScoredEnergies : FLe(e, maxEnergy)

\* a scored scenario next to a scenario without a record whose energy at
\* score 0 would have been the greater one
C9_Witness ==
    /\ SubEnergyComputed
    /\ Len(scenarios) = 2
    /\ Cardinality(Scored) = 1
    /\ ScoredInsufficient = {}
    /\ \A i \in Scored : HighScore(i) >= 0
    /\ \E i \in (1..2) \ Scored :
          /\ Len(scenarios[i].thresholds) = 2
          /\ FLt(maxEnergy,
                 calculateScenarioEnergy(0, scenarios[i].thresholds, startingEnergy))

-----------------------------------------------------------------------------
(* Properties of the rank resolver *)

\* the tiers of the map whose threshold the score meets
Qualifying == {i \in 1..Len(thresholds) : thresholds[i].threshold <= score}

\* the label of the qualifying tier of greatest threshold, or "Unranked"
ExpectedRank ==
    IF Qualifying = {} THEN "Unranked"
    ELSE thresholds[CHOOSE i \in Qualifying :
                        \A j \in Qualifying :
                            thresholds[j].threshold <= thresholds[i].threshold].rank

\* C8: the rank label computed for a scenario's high score is the tier of
\* greatest threshold among the tiers whose threshold is <= score, and
\* "Unranked" when there is none, for every declaration order of the tiers.
C8_RankResolver ==
    /\ op = "scoreRank" => scoreRank = ExpectedRank
    /\ op = "getHighestScenarioRank" => highestRank = ExpectedRank

-----------------------------------------------------------------------------
(* Properties of calculateHarmonicMean *)

MeanComputed == op = "calculateHarmonicMean"

\* the completeness gate: a missing value or a value equal to 0
GateClosed ==
    \/ Len(values) # expectedCount
    \/ \E i \in 1..Len(values) : values[i] = Num(0)

RECURSIVE SumOfReciprocals(_)
SumOfReciprocals(vals) ==
    IF vals = <<>> THEN Num(0)
    ELSE FAdd(FDiv(Num(1), Head(vals)), SumOfReciprocals(Tail(vals)))

\* C10: completeness gate of calculateHarmonicMean: the result is exactly 0
\* whenever the number of values differs from expectedCount or a value is
\* 0; in every other case it is the harmonic mean n / sum(1 / v), which is
\* positive for positive values; [100] with expectedCount 2 gives 0.
C10_CompletenessGate ==
    /\ (MeanComputed /\ GateClosed) => harmonicMean = Num(0)
    /\ (MeanComputed /\ ~GateClosed) =>
          /\ harmonicMean = FDiv(Num(Len(values)), SumOfReciprocals(values))
          /\ (Len(values) > 0 /\ \A i \in 1..Len(values) : FLt(Num(0), values[i]))
                => /\ FLt(Num(0), harmonicMean)
                   /\ FMul(harmonicMean, SumOfReciprocals(values)) = Num(Len(values))
    /\ calculateHarmonicMean(<<Num(100)>>, 2) = Num(0)

\* the values [100] with expectedCount 2: nonzero values, one missing
C10_Witness ==
    /\ MeanComputed
    /\ values = <<Num(100)>> /\ expectedCount = 2
    /\ harmonicMean = Num(0)

\* C11: value of calculateHarmonicMean: with as many values as expected, all
\* of them positive, the result h is n / sum(1 / v): h * sum(1 / v) = n, for
\* two values a and b it is 2ab / (a + b), and [100, 200] with expectedCount
\* 2 gives 400 / 3.
C11_HarmonicMeanValue ==
    /\ (/\ MeanComputed
        /\ Len(values) = expectedCount /\ Len(values) > 0
        /\ \A i \in 1..Len(values) : FLt(Num(0), values[i]))
          => /\ FMul(harmonicMean, SumOfReciprocals(values)) = Num(Len(values))
             /\ Len(values) = 2 =>
                   harmonicMean = FDiv(FMul(Num(2), FMul(values[1], values[2])),
                                       FAdd(values[1], values[2]))
    /\ calculateHarmonicMean(<<Num(100), Num(200)>>, 2) = Rat(400, 3)

\* the values [100, 200] with expectedCount 2
C11_Witness ==
    /\ MeanComputed
    /\ values = <<Num(100), Num(200)>> /\ expectedCount = 2
    /\ harmonicMean = Rat(400, 3)

-----------------------------------------------------------------------------
(* Properties of the rank ladder *)

\* calculateStartingEnergy has just returned startingEnergy for difficulty
StartingEnergyComputed == op = "calculateStartingEnergy"

\* the number of tiers of a difficulty in the rank lists
TierCount(d) ==
    IF d \in DOMAIN difficultyRanks THEN Len(difficultyRanks[d]) ELSE 0

\* rank lists that agree with difficultyRanks on the tier counts of the
\* difficulties strictly before d
AgreeBefore(dr, d) ==
    \A i \in 1..indexOf(Difficulties, d) :
        (IF Difficulties[i] \in DOMAIN dr THEN Len(dr[Difficulties[i]]) ELSE 0)
            = TierCount(Difficulties[i])

\* C13: calculateStartingEnergy(difficulty) is 100 + 100 * (the sum of the
\* tier counts of the difficulties strictly before it in the order Novice,
\* Intermediate, Advanced): 100 for Novice; and every rank-list input with
\* the same tier counts before the difficulty gives the same value, whatever
\* the tier counts of the difficulty itself and of the later difficulties.
C13_StartingEnergyFormula ==
    StartingEnergyComputed =>
        /\ difficulty = "Novice" => startingEnergy = 100
        /\ difficulty = "Intermediate" =>
              startingEnergy = 100 + 100 * TierCount("Novice")
        /\ difficulty = "Advanced" =>
              startingEnergy = 100 + 100 * (TierCount("Novice") + TierCount("Intermediate"))
        /\ \A dr \in DifficultyRankInputs :
              AgreeBefore(dr, difficulty) =>
                  calculateStartingEnergy(difficulty, dr) = startingEnergy

C13_Witness ==
    /\ StartingEnergyComputed
    /\ difficulty = "Advanced"
    /\ TierCount("Novice") = 2 /\ TierCount("Intermediate") = 3
    /\ TierCount("Advanced") = 1
    /\ startingEnergy = 600

\* calculateStartingEnergy was called for a difficulty and then for the next
\* one in the order Novice, Intermediate, Advanced
ConsecutiveComputed ==
    /\ StartingEnergyComputed
    /\ Len(prevDifficulty) = 1
    /\ indexOf(Difficulties, difficulty) = indexOf(Difficulties, prevDifficulty[1]) + 1

\* the difficulty before and its starting energy
D == prevDifficulty[1]
StartingEnergyOfD == prevStartingEnergy[1]

\* C14 as stated: the starting energy of the next difficulty is strictly
\* greater than the one of the difficulty before, for every rank-list input.
C14_AnchoringAsStated ==
    ConsecutiveComputed =>
        /\ startingEnergy > StartingEnergyOfD
        /\ \A i \in 0..(TierCount(D) - 1) :
              StartingEnergyOfD + 100 * i < startingEnergy

\* C14: for consecutive difficulties d before d', calculateStartingEnergy(d')
\* is calculateStartingEnergy(d) plus 100 per tier of d: never smaller,
\* strictly greater when d has at least one tier and equal when it has none;
\* the energy floor of every tier of d is strictly below it.
C14_LadderAnchoring ==
    ConsecutiveComputed =>
        /\ startingEnergy = StartingEnergyOfD + 100 * TierCount(D)
        /\ startingEnergy >= StartingEnergyOfD
        /\ TierCount(D) > 0 <=> startingEnergy > StartingEnergyOfD
        /\ \A i \in 0..(TierCount(D) - 1) :
              StartingEnergyOfD + 100 * i < startingEnergy

C14_Witness ==
    /\ ConsecutiveComputed
    /\ D = "Intermediate"
    /\ TierCount("Novice") = 1 /\ TierCount("Intermediate") = 0
    /\ StartingEnergyOfD = 200 /\ startingEnergy = 200

\* calculateOverallRank has just returned overallRank for overallEnergy and
\* difficulty, which has a rank list
OverallRankComputed ==
    /\ op = "calculateOverallRank"
    /\ difficulty \in DOMAIN difficultyRanks

\* the ordinals of the tiers of difficulty whose energy floor is <= the energy
OrdinalsMet ==
    {i \in 0..(TierCount(difficulty) - 1) :
        FLe(Num(startingEnergy + 100 * i), overallEnergy)}

\* C15: calculateOverallRank(energy, difficulty) returns the tier with the
\* highest ordinal i whose energy floor startingEnergy(difficulty) + 100 * i
\* is <= energy, and "Unranked" when there is none, which is the case when
\* the energy is below the floor of ordinal 0.
C15_OverallRank ==
    OverallRankComputed =>
        /\ startingEnergy = calculateStartingEnergy(difficulty, difficultyRanks)
        /\ OrdinalsMet # {} =>
              \E i \in OrdinalsMet :
                  /\ \A j \in OrdinalsMet : j <= i
                  /\ overallRank = difficultyRanks[difficulty][i + 1]
        /\ OrdinalsMet = {} => overallRank = "Unranked"
        /\ FLt(overallEnergy, Num(startingEnergy)) => overallRank = "Unranked"

C15_Witness ==
    /\ OverallRankComputed
    /\ difficulty = "Intermediate"
    /\ TierCount("Novice") = 1
    /\ difficultyRanks["Intermediate"] = <<"Bronze", "Silver", "Gold">>
    /\ overallEnergy = Num(390)
    /\ overallRank = "Silver"

\* the example: the tiers Bronze, Silver, Gold with startingEnergy = 100
ExampleClassified ==
    /\ OverallRankComputed
    /\ difficulty = "Novice"
    /\ difficultyRanks["Novice"] = <<"Bronze", "Silver", "Gold">>
    /\ startingEnergy = 100

\* C16 as stated: classifying energy 100 gives "Unranked", 200 gives "Silver"
\* and 330 gives "Gold".
C16_ExampleAsStated ==
    ExampleClassified =>
        /\ overallEnergy = Num(100) => overallRank = "Unranked"
        /\ overallEnergy = Num(200) => overallRank = "Silver"
        /\ overallEnergy = Num(330) => overallRank = "Gold"

\* C16: with the tiers Bronze, Silver, Gold and startingEnergy = 100,
\* classifying energy 100 gives "Bronze" (100 is Bronze's energy floor),
\* energy 200 gives "Silver" and energy 330 gives "Gold"; the energies below
\* 100 give "Unranked".
C16_Example ==
    ExampleClassified =>
        /\ overallEnergy = Num(100) => overallRank = "Bronze"
        /\ overallEnergy = Num(200) => overallRank = "Silver"
        /\ overallEnergy = Num(330) => overallRank = "Gold"
        /\ FLt(overallEnergy, Num(100)) => overallRank = "Unranked"

C16_Witness ==
    /\ ExampleClassified
    /\ overallEnergy = Num(100)
    /\ overallRank = "Bronze"

-----------------------------------------------------------------------------
(* Properties of isRankComplete *)

\* isRankComplete has just returned rankComplete for difficulty and rank
CompleteComputed == op = "isRankComplete"

\* the scenarios [scenario, thresholds] under a difficulty of the catalogue
ScenariosUnder(d) ==
    {benchmarkData[d][c].subcategories[b].scenarios[k] :
        <<c, b, k>> \in
            {x \in (1..Len(benchmarkData[d])) \X (1..2) \X (1..2) :
                /\ x[2] <= Len(benchmarkData[d][x[1]].subcategories)
                /\ x[3] <= Len(benchmarkData[d][x[1]].subcategories[x[2]].scenarios)}}

\* the scenario defines a threshold for the rank
Defines(e, r) == \E i \in 1..Len(e.thresholds) : e.thresholds[i].rank = r

\* the scenario's threshold for a rank it defines
ThresholdFor(e, r) ==
    (CHOOSE x \in {e.thresholds[i] : i \in 1..Len(e.thresholds)} : x.rank = r).threshold

\* C18: isRankComplete(scores, catalogue, difficulty, rank) is true exactly
\* when every scenario under the difficulty that defines a threshold for the
\* rank and has a score record has highScore >= that threshold; scenarios
\* without a score record and scenarios not defining the rank never block,
\* so a rank with no score records at all is reported complete.
C18_RankComplete ==
    CompleteComputed =>
        /\ rankComplete <=>
              \A e \in ScenariosUnder(difficulty) :
                  (Defines(e, rank) /\ e.scenario \in DOMAIN scores)
                      => scores[e.scenario].highScore >= ThresholdFor(e, rank)
        /\ (\A e \in ScenariosUnder(difficulty) : e.scenario \notin DOMAIN scores)
              => rankComplete

C18_Witness ==
    /\ CompleteComputed
    /\ difficulty = "Novice" /\ rank = "Silver"
    /\ \A e \in ScenariosUnder("Novice") : Defines(e, "Silver")
    /\ DOMAIN scores = {"s3"}
    /\ rankComplete

-----------------------------------------------------------------------------
(* Properties of App *)

\* App has the catalogue and shows the tables
Loaded == benchmarkData # Null

\* a successful fetchScores for the scenarios of the catalogue has set scores
ScoresFetched == Loaded /\ DOMAIN scores = allScenariosOf(benchmarkData)

\* the tiers [rank, threshold] of a scenario
Tiers(e) == {e.thresholds[i] : i \in 1..Len(e.thresholds)}

\* the position of a rank of a scenario in ascending threshold order, from 0
ThresholdPosition(e, r) ==
    Cardinality({x \in Tiers(e) : x.threshold < ThresholdFor(e, r)})

\* C17: the ordinal i that calculateOverallRank and the energy labels of the
\* table header give to a tier of a difficulty (its index in
\* difficultyRanks[difficulty]) equals the tier's position in ascending
\* threshold order, for every order in which the catalogue declares the
\* tiers in its threshold maps; so an energy equal to the floor of the
\* ordinal k is classified as the tier with the k-th smallest threshold.
C17_TierOrdinals ==
    Loaded =>
        \A d \in DOMAIN difficultyRanks :
            \A e \in ScenariosUnder(d) :
                \A i \in 1..Len(difficultyRanks[d]) :
                    Defines(e, difficultyRanks[d][i]) =>
                        /\ i - 1 = ThresholdPosition(e, difficultyRanks[d][i])
                        /\ calculateOverallRank(
                               Num(calculateStartingEnergy(d, difficultyRanks)
                                     + 100 * ThresholdPosition(e, difficultyRanks[d][i])),
                               d, difficultyRanks) = difficultyRanks[d][i]

\* get_stats returned a stat for the scenario
StatReturned(n) == n \in DOMAIN scores /\ scores[n].rank = "0"

\* the subcategories of a difficulty of the catalogue
SubcategoriesUnder(d) ==
    {benchmarkData[d][c].subcategories[b] :
        <<c, b>> \in {x \in (1..Len(benchmarkData[d])) \X (1..2) :
                        x[2] <= Len(benchmarkData[d][x[1]].subcategories)}}

\* no stat was returned for any scenario of the subcategory
Unattempted(sub) ==
    \A k \in 1..Len(sub.scenarios) : ~StatReturned(sub.scenarios[k].scenario)

\* C12: for any catalogue and any stats returned by get_stats, the overall
\* energy of a difficulty computed by calculateOverallRankForTab / renderTable
\* is 0 as long as at least one subcategory of the difficulty has no scenario
\* with a returned stat.
C12_AllOrNothing ==
    ScoresFetched =>
        \A d \in DOMAIN difficultyRanks :
            (\E sub \in SubcategoriesUnder(d) : Unattempted(sub))
                => calculateOverallRankForTab(d, benchmarkData, scores,
                                              difficultyRanks) = Num(0)

\* C19: after a successful fetchScores, the completion flag computed by
\* renderOverallRank for the overall rank is true whenever every scenario of
\* the active tab with a returned stat meets that rank's threshold: a scenario
\* without a stat never makes it false.
C19_UnattemptedNeverBlock ==
    ScoresFetched =>
        LET v == renderOverallRank(benchmarkData, scores, difficultyRanks, activeTab)
        IN  (\A e \in ScenariosUnder(activeTab) :
                (StatReturned(e.scenario) /\ Defines(e, v.overallRank))
                    => scores[e.scenario].highScore >= ThresholdFor(e, v.overallRank))
                => v.rankComplete = TRUE

-----------------------------------------------------------------------------
(* Frame of the engine *)

\* the functions of the engine
EngineOperations ==
    {"calculateScenarioEnergy", "calculateSubcategoryEnergy",
     "calculateHarmonicMean", "calculateStartingEnergy",
     "calculateOverallRank", "isRankComplete"}

\* C20: no engine operation mutates its inputs: a call of
\* calculateScenarioEnergy, calculateSubcategoryEnergy, calculateHarmonicMean,
\* calculateStartingEnergy, calculateOverallRank or isRankComplete leaves the
\* threshold maps, the scores snapshot, the catalogue, the rank lists and the
\* energies array as they were (the sort and the FakeLower / FakeUpper
\* entries act on copies).
C20_NoMutation ==
    [][op' \in EngineOperations =>
          /\ thresholds' = thresholds
          /\ scenarios' = scenarios
          /\ scores' = scores
          /\ benchmarkData' = benchmarkData
          /\ difficultyRanks' = difficultyRanks
          /\ values' = values]_vars

\* calculateScenarioEnergy was called on a threshold map that is not declared
\* in ascending order, which it sorts
C20_Witness ==
    /\ op = "calculateScenarioEnergy"
    /\ Len(thresholds) = 2
    /\ thresholds[1].threshold > thresholds[2].threshold
    /\ thresholds # sortByThreshold(thresholds)
    /\ energy = calculateScenarioEnergy(score, sortByThreshold(thresholds), startingEnergy)

-----------------------------------------------------------------------------
(* Claims about the cells of renderTable *)

\* the threshold map is not declared in ascending threshold order
DeclaredOutOfOrder ==
    \E i \in 1..(Len(thresholds) - 1) :
        thresholds[i].threshold > thresholds[i + 1].threshold

\* the threshold maps that hold the tier-to-threshold pairs of th in another
\* declaration order
Reorderings(th) ==
    {[i \in 1..Len(th) |-> th[p[i]]] : p \in InjSeqs(1..Len(th), Len(th))}

\* C22: calculateScenarioEnergy is independent of the declaration order of
\* the threshold map: every threshold map with the same tier-to-threshold
\* pairs listed in another order gives the same energy for the same score
\* and starting energy.
C22_DeclarationOrder ==
    op = "calculateScenarioEnergy" =>
        \A other \in Reorderings(thresholds) :
            calculateScenarioEnergy(score, other, startingEnergy) = energy

\* an energy has been computed inside a bracket of a map of three tiers that
\* is not declared in ascending order
C22_Witness ==
    /\ EnergyComputed
    /\ NumTiers >= 3
    /\ DeclaredOutOfOrder
    /\ score > T(1) /\ score < T(NumTiers)
    /\ IsFinite(energy)

\* the rank labels of the threshold map in ascending threshold order
TierLabels ==
    [i \in 1..NumTiers |-> sortByThreshold(thresholds)[i].rank]

\* C24: energy and score rank agree: for every threshold map of at least two
\* tiers sorted as T[0..n-1], every starting energy >= 100 and every
\* non-negative score, score >= T[i] holds exactly when the energy of
\* calculateScenarioEnergy is >= startingEnergy + 100 * i; and the loop of
\* calculateOverallRank over the tier labels in ascending order classifies
\* the energy as the tier of greatest threshold that the score reaches.
C24_EnergyAgreesWithScoreRank ==
    (EnergyComputed /\ score >= 0 /\ startingEnergy >= ENERGY_BASE) =>
        /\ \A i \in 1..NumTiers :
               score >= T(i) <=> FGe(energy, Num(Level(i)))
        /\ overallRankLoop(NumTiers - 1, energy, startingEnergy, TierLabels)
               = ExpectedRank

\* a score that reaches the second tier but not the third of a map that is
\* not declared in ascending order
C24_Witness ==
    /\ EnergyComputed
    /\ NumTiers >= 3
    /\ DeclaredOutOfOrder
    /\ score >= T(2) /\ score < T(3)
    /\ FGe(energy, Num(Level(2))) /\ FLt(energy, Num(Level(3)))

\* C25: calculateSubcategoryEnergy never returns a negative value: for any
\* scores, including negative high scores, a returned result is >= 0, and it
\* is exactly 0 when every scored scenario has an energy <= 0.
C25_NeverNegative ==
    (SubEnergyComputed /\ ~Threw(maxEnergy)) =>
        /\ FGe(maxEnergy, Num(0))
        /\ (\A e \in ScoredEnergies : FLe(e, Num(0))) => maxEnergy = Num(0)

\* a complete list of strictly positive subcategory energies
CompletePositive ==
    /\ Len(values) = expectedCount /\ Len(values) > 0
    /\ \A i \in 1..Len(values) : FLt(Num(0), values[i])

\* rank lists of three tiers for every difficulty
ThreeTierRanks ==
    [d \in {Difficulties[i] : i \in 1..3} |-> <<"Bronze", "Silver", "Gold">>]

\* the position of the overall rank of energy e in the ladder of d: 0 is
\* "Unranked"
RankPosition(e, d) ==
    LET label == calculateOverallRank(e, d, ThreeTierRanks)
    IN  IF label = "Unranked" THEN 0
        ELSE CHOOSE i \in 1..3 : ThreeTierRanks[d][i] = label

\* C26: for every complete list of strictly positive subcategory energies,
\* calculateHarmonicMean returns a value between the minimum and the maximum
\* of the list, so the overall rank of calculateOverallRank is never above
\* the rank of the strongest subcategory and never below the rank of the
\* weakest one.
C26_MeanBetweenMinAndMax ==
    (MeanComputed /\ CompletePositive) =>
        /\ \E i \in 1..Len(values) : FLe(values[i], harmonicMean)
        /\ \E i \in 1..Len(values) : FLe(harmonicMean, values[i])
        /\ \A d \in DOMAIN ThreeTierRanks :
              /\ \E i \in 1..Len(values) :
                     RankPosition(values[i], d) <= RankPosition(harmonicMean, d)
              /\ \E i \in 1..Len(values) :
                     RankPosition(harmonicMean, d) <= RankPosition(values[i], d)

\* two different positive energies: the mean lies strictly between them and
\* its Novice rank is below the rank of the stronger subcategory
C26_Witness ==
    /\ MeanComputed /\ CompletePositive
    /\ Len(values) = 2
    /\ FLt(values[1], harmonicMean) /\ FLt(harmonicMean, values[2])
    /\ RankPosition(harmonicMean, "Novice") < RankPosition(values[2], "Novice")
    /\ RankPosition(values[1], "Novice") > 0

\* renderTable has computed the progress of a scenario that has at least one tier
ProgressComputed == op = "progress" /\ NumTiers >= 1

\* C21: for every non-negative score and every threshold map with at least
\* one tier, the progress computed by renderTable lies between 0 and 100: it
\* is score / T[0] * 100 below the lowest tier, (score - T[i]) / (T[i+1] -
\* T[i]) * 100 when the score is in tier i below the top tier, and exactly
\* 100 when the score is at or above the highest threshold.
C21_Progress ==
    (ProgressComputed /\ score >= 0) =>
        /\ FGe(scenarioProgress, Num(0))
        /\ FLe(scenarioProgress, Num(100))
        /\ score < T(1) => scenarioProgress = Rat(score * 100, T(1))
        /\ \A i \in 1..(NumTiers - 1) :
               (T(i) <= score /\ score < T(i + 1)) =>
                   scenarioProgress = Rat((score - T(i)) * 100, T(i + 1) - T(i))
        /\ score >= T(NumTiers) => scenarioProgress = Num(100)

\* the score is strictly inside a tier below the top tier of a map that is
\* not declared in ascending order
C21_Witness ==
    /\ ProgressComputed
    /\ DeclaredOutOfOrder
    /\ \E i \in 1..(NumTiers - 1) : T(i) < score /\ score < T(i + 1)
    /\ FLt(Num(0), scenarioProgress) /\ FLt(scenarioProgress, Num(100))

\* C23: for every threshold map with at least two tiers and every score at
\* or above the lowest real threshold, the energy computed inline by
\* renderTable and the energy of the former calculateSubcategoryEnergy are
\* the energy calculateScenarioEnergy returns; for a non-negative score
\* below the lowest real threshold the inline computation gives 0 and the
\* former function gives startingEnergy * score / T[0].
C23_SameEnergyAboveLowestTier ==
    /\ (op = "inlineEnergy" /\ NumTiers >= 2 /\ score >= T(1)) =>
           inlineEnergy = calculateScenarioEnergy(score, thresholds, startingEnergy)
    /\ (op = "legacyEnergy" /\ NumTiers >= 2 /\ score >= T(1)) =>
           legacyEnergy = calculateScenarioEnergy(score, thresholds, startingEnergy)
    /\ (op = "inlineEnergy" /\ NumTiers >= 2 /\ score >= 0 /\ score < T(1)) =>
           inlineEnergy = Num(0)
    /\ (op = "legacyEnergy" /\ NumTiers >= 2 /\ score >= 0 /\ score < T(1)) =>
           legacyEnergy = Rat(startingEnergy * score, T(1))

\* the inline computation has run on a score above the highest threshold of
\* a map that is not declared in ascending order
C23_Witness ==
    /\ op = "inlineEnergy"
    /\ NumTiers >= 2
    /\ DeclaredOutOfOrder
    /\ score >= T(NumTiers)
    /\ inlineEnergy = Num(startingEnergy + NumTiers * ENERGY_INCREMENT)

-----------------------------------------------------------------------------
(* Claims about fetchScores and refreshScores *)

\* fetchScores has just applied the response of a get_stats call
ScoresApplied == op = "fetchScores"

\* C27: after a successful fetchScores(scenarios) the scores state holds a
\* record for exactly the requested scenarios: highScore is the score of the
\* returned stat when get_stats returned a stat for the scenario, and
\* otherwise highScore is 0 with rank "Unranked".
C27_ScoresReplaced ==
    ScoresApplied =>
        /\ DOMAIN scores = applied.scenarios
        /\ \A n \in applied.scenarios :
               IF n \in DOMAIN rustResponse
               THEN scores[n].highScore = rustResponse[n]
               ELSE scores[n].highScore = 0 /\ scores[n].rank = "Unranked"

\* a response with a positive score for one requested scenario and no stat
\* for another one
C27_Witness ==
    /\ ScoresApplied
    /\ \E n \in applied.scenarios : n \in DOMAIN rustResponse /\ scores[n].highScore > 0
    /\ \E n \in applied.scenarios : n \notin DOMAIN rustResponse

\* C28: when get_stats fails, fetchScores leaves the scores state, the
\* catalogue and the rank lists exactly as they were before the call.
C28_FailureKeepsState ==
    [][op' = "fetchScores failed" =>
           UNCHANGED <<scores, benchmarkData, difficultyRanks>>]_vars

\* a get_stats call has failed while the scores state held records
C28_Witness ==
    /\ op = "fetchScores failed"
    /\ Loaded
    /\ DOMAIN scores # {}

\* C29: overlapping refreshes: when two get_stats calls are in flight at the
\* same time, the scores state holds, once both have completed, the response
\* of the call that was made last, whatever the order of arrival: fetchScores
\* never applies the response of a call after the response of a call that
\* was made later.
C29_LastIssuedWins ==
    ScoresApplied => ~applied.overtaken

\* C30: once the catalogue is loaded, after any successful refreshScores the
\* scores state holds a record for every scenario of the catalogue,
\* including when the get_stats call of fetchData failed.
C30_RefreshCoversCatalogue ==
    (ScoresApplied /\ applied.source = "refreshScores") =>
        DOMAIN scores = allScenariosOf(benchmarkData)

====
